---- MODULE Spec2Model ----
(***************************************************************************)
(* koa-rbac: role based access control middleware for koa.                 *)
(*                                                                         *)
(* The model covers lib/rbac.js (provider-backed middleware: the request   *)
(* carries a running allowed weight, rules are resolved by a recursive     *)
(* walk over the role inheritance graph) and koa-rbac.js (middleware over  *)
(* an RBAC-A instance: every rule asks the instance for a priority).       *)
(***************************************************************************)
EXTENDS Integers, Sequences, FiniteSets, TLC

VARIABLES
    app,            \* which module the pipe is built from: "lib" or "koa"
    options,        \* koa-rbac: the options given to middleware(options)
    user,           \* koa-rbac: what options.identity(ctx) yields
    priority,       \* koa-rbac: what options.rbac.check yields for this user
    provider,       \* the access provider's role table (role name -> role)
    installed,      \* TRUE iff the app uses rbac.middleware(provider)
    userRoles,      \* what provider.getUserRoles(ctx) yields for the request
    allowedWeight,  \* ctx._allowedWeight
    status,         \* where the request is: none/running/handled/forbidden/...
    last,           \* the rule that ran last on this request, and what it did
    opening,        \* history: the permissions of the allow rule that opened
                    \* the chain, kept while at most one rule ran after it
    rule,           \* a rule under construction: the constructor called, the
                    \* permissions given to it and what it returned or threw
    accept,         \* the Accept header of the request
    handled,        \* koa-rbac: the calls options.restrictionHandler received
                    \* during the request
    requests,       \* the requests in flight together, each suspended at a
                    \* yield of its rule, and the _allowedWeight of each ctx
    resolution,     \* one call of findMatchingRuleWeight under way: the
                    \* frames of the recursion, the fetch it waits for and
                    \* the fetches it made
    ctxProperties,  \* lib/rbac: the global the last call of
                    \* middleware(provider) assigned its descriptors to
    instances       \* lib/rbac: the providers of the middleware functions
                    \* made so far, and the one the request came through

vars == <<app, options, user, priority, provider, installed, userRoles,
          allowedWeight, status, last, opening, rule, accept, handled,
          requests, resolution, ctxProperties, instances>>

----------------------------------------------------------------------------
(* Values that are not weights.  Weights are depths 0, 1, 2, ...           *)

\* `value: null` of the _allowedWeight property
Null == -1
\* `var weight = false`
False == -2
\* the recursion of findMatchingRuleWeight never returns
Diverges == -3
\* an error is thrown out of findMatchingRuleWeight: a TypeError, or the
\* error the provider's fetch failed with
Throws == -4
\* the rule did not evaluate this query
NotRun == -5
\* `NaN`, what ctx.rbac.check resolves to when nothing is granted
NaN == -6
\* `Infinity`, above every priority
Infinity == 1000
\* the promise of the RBAC-A instance's check is rejected
Rejected == -7

Min(a, b) == IF a < b THEN a ELSE b

\* Array.prototype.indexOf on the prepared permission list (0-based, -1 if absent)
indexOf(permissions, p) ==
    IF \E k \in 1..Len(permissions) : permissions[k] = p
    THEN (CHOOSE k \in 1..Len(permissions) :
              /\ permissions[k] = p
              /\ \A j \in 1..(k - 1) : permissions[j] # p) - 1
    ELSE -1

----------------------------------------------------------------------------
(* The provider of the tests: roles and the role lists of the users.       *)

Role(perms, inh) == [permissions |-> perms, inherited |-> inh]

TestRoles ==
    [r \in {"guest", "reader", "writer", "editor", "director", "admin",
            "cyclic1", "cyclic2"} |->
        CASE r = "guest"    -> Role({"foo"}, <<>>)
          [] r = "reader"   -> Role({"read"}, <<"guest">>)
          [] r = "writer"   -> Role({"create"}, <<"reader">>)
          [] r = "editor"   -> Role({"update"}, <<"reader">>)
          [] r = "director" -> Role({"delete"}, <<"editor">>)
          [] r = "admin"    -> Role({"manage"}, <<>>)
          [] r = "cyclic1"  -> Role({"crc1"}, <<"cyclic2">>)
          [] r = "cyclic2"  -> Role({"crc2"}, <<"cyclic1">>)]

\* what the provider has for a role whose fetch fails (getRolePermissions
\* throws)
Rejection == [rejects |-> TRUE]

\* the provider of the tests, and the same with a failing fetch of 'guest'
Providers == {TestRoles, [TestRoles EXCEPT !["guest"] = Rejection]}

\* bart, marge, homer, burns, phsycho bob; a user without roles; a user whose
\* second role is reached again through the first; a role nobody defined
TestUsers ==
    { <<"guest", "reader">>, <<"editor">>, <<"admin", "director">>,
      <<"admin">>, <<"cyclic1">>, <<>>, <<"director", "editor">>,
      <<"admin", "learned">> }

\* prepared permission lists used by the rules
Queries ==
    { <<"read">>, <<"update">>, <<"manage">>, <<"foo">>,
      <<"read", "update">> }

\* no requests in flight together
NoRequests == <<>>

\* no resolution followed step by step
NoResolution == <<>>

\* middleware(provider) was never called: the global is not defined
NoProperties == [accessProvider |-> <<>>, allowedWeight |-> Null,
                 defined |-> FALSE]

\* no middleware function made
NoInstances == [made |-> <<>>, through |-> 0]

\* no permission list given to check ('allow' / 'deny' key absent)
NoQuery == <<>>

RedirectUrls == {"", "/foo"}

\* the Accept headers the tests send
AcceptHeaders == {"text/html", "application/json"}

\* koa-rbac: permission values handed to the RBAC-A instance
KoaQueries == { <<"read">>, <<"update">> }

\* koa-rbac: the priorities an RBAC-A instance answers with, or its failure
Priorities == {NaN, 1, 2, Rejected}

NoOptions == [rbac |-> FALSE, restrictionHandler |-> FALSE]

NoPriority == [q \in KoaQueries |-> NaN]

----------------------------------------------------------------------------
(* Every small single-inheritance provider: role tables over NumRoles role *)
(* names, each role either unknown to the provider or holding the          *)
(* permission "p" or not and inheriting from no role or from one role      *)
(* (itself included); the requester has up to MaxUserRoles roles.          *)

NumRoles == 3
MaxUserRoles == 2

SeqsUpTo(S, n) == UNION {[1..k -> S] : k \in 0..n}

GenRoles == 1..NumRoles
GenPerms == {"p"}

GenRoleDefs ==
    [permissions : SUBSET GenPerms,
     inherited : {<<>>} \cup {<<r>> : r \in GenRoles}]

GenProviders == UNION {[D -> GenRoleDefs] : D \in SUBSET GenRoles}

GenUsers == SeqsUpTo(GenRoles, MaxUserRoles)

GenQueries == {<<p>> : p \in GenPerms}

----------------------------------------------------------------------------
(* lib/rbac.js                                                             *)

\* the test provider: `return roles[roleName]`; undefined for unknown names
Knows(prov, roleName) == roleName \in DOMAIN prov

\* `yield (provider.getRolePermissions)(roles[i])` throws
Rejects(prov, roleName) == "rejects" \in DOMAIN prov[roleName]

\* The deepest stack a terminating call can build: every frame walks one role
\* list (the user's or one role's `inherited`), and a list that is entered
\* again while it is being walked is entered again forever, because what a
\* frame does depends on the list alone and not on the depth.
DepthLimit(prov) == Cardinality(DOMAIN prov)

RECURSIVE findMatchingRuleWeight(_, _, _, _)
RECURSIVE ruleWeightLoop(_, _, _, _, _, _)

\* the loop recording `depth + 1` for `depth` on a match
ruleWeightLoop_offByOne(i, weight, depth, roles, prov, permissions) ==
    IF i > Len(roles) THEN weight
    ELSE IF ~Knows(prov, roles[i]) THEN Throws
    ELSE IF Rejects(prov, roles[i]) THEN Throws
    ELSE
      LET role == prov[roles[i]]
          matched == \E p \in role.permissions : indexOf(permissions, p) >= 0
          w1 == IF matched /\ (weight = False \/ weight > depth)
                THEN depth + 1 ELSE weight
      IN  IF w1 = False
          THEN LET inheritedWeight ==
                       findMatchingRuleWeight(depth + 1, role.inherited,
                                              prov, permissions)
               IN  IF inheritedWeight \in {Diverges, Throws}
                   THEN inheritedWeight
                   ELSE ruleWeightLoop(i + 1,
                            IF inheritedWeight # False
                            THEN inheritedWeight ELSE w1,
                            depth, roles, prov, permissions)
          ELSE ruleWeightLoop(i + 1, w1, depth, roles, prov, permissions)

\* the body of `for (i = 0; i < ilen; ++i)` with the current `weight`
ruleWeightLoop(i, weight, depth, roles, prov, permissions) ==
    IF i > Len(roles) THEN weight
    ELSE IF ~Knows(prov, roles[i]) THEN Throws   \* role.permissions of undefined
    ELSE IF Rejects(prov, roles[i]) THEN Throws
    ELSE
      LET role == prov[roles[i]]
          matched == \E p \in role.permissions : indexOf(permissions, p) >= 0
          w1 == IF matched /\ (weight = False \/ weight > depth)
                THEN depth ELSE weight
      IN  IF w1 = False
          THEN LET inheritedWeight ==
                       findMatchingRuleWeight(depth + 1, role.inherited,
                                              prov, permissions)
               IN  IF inheritedWeight \in {Diverges, Throws}
                   THEN inheritedWeight
                   ELSE ruleWeightLoop(i + 1,
                            IF inheritedWeight # False
                            THEN inheritedWeight ELSE w1,
                            depth, roles, prov, permissions)
          ELSE ruleWeightLoop(i + 1, w1, depth, roles, prov, permissions)

findMatchingRuleWeight(depth, roles, prov, permissions) ==
    IF depth > DepthLimit(prov) THEN Diverges
    ELSE ruleWeightLoop(1, False, depth, roles, prov, permissions)

\* the role names findMatchingRuleWeight hands to provider.getRolePermissions,
\* in the order of the calls: one call per pass of the loop, and the calls of
\* the recursion into role.inherited between two passes
RECURSIVE fetchedLoop(_, _, _, _, _, _)
RECURSIVE fetched(_, _, _, _)

fetchedLoop(i, weight, depth, roles, prov, permissions) ==
    IF i > Len(roles) THEN <<>>
    ELSE IF ~Knows(prov, roles[i]) \/ Rejects(prov, roles[i])
    THEN <<roles[i]>>
    ELSE
      LET role == prov[roles[i]]
          matched == \E p \in role.permissions : indexOf(permissions, p) >= 0
          w1 == IF matched /\ (weight = False \/ weight > depth)
                THEN depth ELSE weight
      IN  IF w1 = False
          THEN LET inheritedWeight ==
                       findMatchingRuleWeight(depth + 1, role.inherited,
                                              prov, permissions)
                   below == fetched(depth + 1, role.inherited, prov,
                                    permissions)
               IN  IF inheritedWeight \in {Diverges, Throws}
                   THEN <<roles[i]>> \o below
                   ELSE <<roles[i]>> \o below \o
                        fetchedLoop(i + 1,
                            IF inheritedWeight # False
                            THEN inheritedWeight ELSE w1,
                            depth, roles, prov, permissions)
          ELSE <<roles[i]>> \o
               fetchedLoop(i + 1, w1, depth, roles, prov, permissions)

fetched(depth, roles, prov, permissions) ==
    IF depth > DepthLimit(prov) THEN <<>>
    ELSE fetchedLoop(1, False, depth, roles, prov, permissions)

\* the request context as the rules see it
Ctx == [installed |-> installed, provider |-> provider,
        userRoles |-> userRoles, allowedWeight |-> allowedWeight]

\* isAllowed without the `_allowedWeight === null` test: an unsatisfied
\* query never restricts
isAllowed_lenient(ctx, permissions) ==
    IF ~ctx.installed
    THEN [ret |-> "true", aw |-> ctx.allowedWeight, w |-> NotRun]
    ELSE
      LET ruleWeight == findMatchingRuleWeight(0, ctx.userRoles,
                                               ctx.provider, permissions)
      IN  IF ruleWeight = Diverges
          THEN [ret |-> "diverges", aw |-> ctx.allowedWeight, w |-> ruleWeight]
          ELSE IF ruleWeight = Throws
          THEN [ret |-> "throws", aw |-> ctx.allowedWeight, w |-> ruleWeight]
          ELSE IF ruleWeight = False
          THEN [ret |-> "true", aw |-> ctx.allowedWeight, w |-> ruleWeight]
          ELSE [ret |-> "true",
                aw |-> IF ctx.allowedWeight = Null THEN ruleWeight
                       ELSE Min(ctx.allowedWeight, ruleWeight),
                w |-> ruleWeight]

\* isAllowed that restricts on every unsatisfied query, whatever was
\* recorded before
isAllowed_strict(ctx, permissions) ==
    IF ~ctx.installed
    THEN [ret |-> "true", aw |-> ctx.allowedWeight, w |-> NotRun]
    ELSE
      LET ruleWeight == findMatchingRuleWeight(0, ctx.userRoles,
                                               ctx.provider, permissions)
      IN  IF ruleWeight = Diverges
          THEN [ret |-> "diverges", aw |-> ctx.allowedWeight, w |-> ruleWeight]
          ELSE IF ruleWeight = Throws
          THEN [ret |-> "throws", aw |-> ctx.allowedWeight, w |-> ruleWeight]
          ELSE IF ruleWeight = False
          THEN [ret |-> "false", aw |-> ctx.allowedWeight, w |-> ruleWeight]
          ELSE [ret |-> "true",
                aw |-> IF ctx.allowedWeight = Null THEN ruleWeight
                       ELSE Min(ctx.allowedWeight, ruleWeight),
                w |-> ruleWeight]

\* isAllowed that overwrites the recorded weight instead of keeping the minimum
isAllowed_overwrite(ctx, permissions) ==
    IF ~ctx.installed
    THEN [ret |-> "true", aw |-> ctx.allowedWeight, w |-> NotRun]
    ELSE
      LET ruleWeight == findMatchingRuleWeight(0, ctx.userRoles,
                                               ctx.provider, permissions)
      IN  IF ruleWeight = Diverges
          THEN [ret |-> "diverges", aw |-> ctx.allowedWeight, w |-> ruleWeight]
          ELSE IF ruleWeight = Throws
          THEN [ret |-> "throws", aw |-> ctx.allowedWeight, w |-> ruleWeight]
          ELSE IF ruleWeight = False
          THEN [ret |-> IF ctx.allowedWeight = Null THEN "false" ELSE "true",
                aw |-> ctx.allowedWeight, w |-> ruleWeight]
          ELSE [ret |-> "true", aw |-> ruleWeight, w |-> ruleWeight]

\* isAllowed: ret is "true"/"false", or "diverges"/"throws" when the
\* resolution does not return; aw is ctx._allowedWeight afterwards
isAllowed(ctx, permissions) ==
    IF ~ctx.installed
    THEN [ret |-> "true", aw |-> ctx.allowedWeight, w |-> NotRun]
    ELSE
      LET ruleWeight == findMatchingRuleWeight(0, ctx.userRoles,
                                               ctx.provider, permissions)
      IN  IF ruleWeight = Diverges
          THEN [ret |-> "diverges", aw |-> ctx.allowedWeight, w |-> ruleWeight]
          ELSE IF ruleWeight = Throws
          THEN [ret |-> "throws", aw |-> ctx.allowedWeight, w |-> ruleWeight]
          ELSE IF ruleWeight = False
          THEN [ret |-> IF ctx.allowedWeight = Null THEN "false" ELSE "true",
                aw |-> ctx.allowedWeight, w |-> ruleWeight]
          ELSE [ret |-> "true",
                aw |-> IF ctx.allowedWeight = Null THEN ruleWeight
                       ELSE Min(ctx.allowedWeight, ruleWeight),
                w |-> ruleWeight]

\* isDenied with `<=` for `<`: a denial of equal weight passes
isDenied_tiePasses(ctx, permissions) ==
    IF ~ctx.installed
    THEN [ret |-> "true", aw |-> ctx.allowedWeight, w |-> NotRun]
    ELSE
      LET ruleWeight == findMatchingRuleWeight(0, ctx.userRoles,
                                               ctx.provider, permissions)
      IN  IF ruleWeight = Diverges
          THEN [ret |-> "diverges", aw |-> ctx.allowedWeight, w |-> ruleWeight]
          ELSE IF ruleWeight = Throws
          THEN [ret |-> "throws", aw |-> ctx.allowedWeight, w |-> ruleWeight]
          ELSE IF \/ ruleWeight = False
                  \/ (ctx.allowedWeight # Null /\ ctx.allowedWeight <= ruleWeight)
          THEN [ret |-> "false", aw |-> ctx.allowedWeight, w |-> ruleWeight]
          ELSE [ret |-> "true", aw |-> ctx.allowedWeight, w |-> ruleWeight]

\* isDenied that does not look at the allowed weight
isDenied_stateless(ctx, permissions) ==
    IF ~ctx.installed
    THEN [ret |-> "true", aw |-> ctx.allowedWeight, w |-> NotRun]
    ELSE
      LET ruleWeight == findMatchingRuleWeight(0, ctx.userRoles,
                                               ctx.provider, permissions)
      IN  IF ruleWeight = Diverges
          THEN [ret |-> "diverges", aw |-> ctx.allowedWeight, w |-> ruleWeight]
          ELSE IF ruleWeight = Throws
          THEN [ret |-> "throws", aw |-> ctx.allowedWeight, w |-> ruleWeight]
          ELSE IF ruleWeight = False
          THEN [ret |-> "false", aw |-> ctx.allowedWeight, w |-> ruleWeight]
          ELSE [ret |-> "true", aw |-> ctx.allowedWeight, w |-> ruleWeight]

\* isDenied that keeps the weight of the denied permissions in the context
isDenied_recordsWeight(ctx, permissions) ==
    IF ~ctx.installed
    THEN [ret |-> "true", aw |-> ctx.allowedWeight, w |-> NotRun]
    ELSE
      LET ruleWeight == findMatchingRuleWeight(0, ctx.userRoles,
                                               ctx.provider, permissions)
      IN  IF ruleWeight = Diverges
          THEN [ret |-> "diverges", aw |-> ctx.allowedWeight, w |-> ruleWeight]
          ELSE IF ruleWeight = Throws
          THEN [ret |-> "throws", aw |-> ctx.allowedWeight, w |-> ruleWeight]
          ELSE IF \/ ruleWeight = False
                  \/ (ctx.allowedWeight # Null /\ ctx.allowedWeight < ruleWeight)
          THEN [ret |-> "false", aw |-> ctx.allowedWeight, w |-> ruleWeight]
          ELSE [ret |-> "true", aw |-> ruleWeight, w |-> ruleWeight]

\* isDenied that lets the request of a context without provider go on
isDenied_passesUnbound(ctx, permissions) ==
    IF ~ctx.installed
    THEN [ret |-> "false", aw |-> ctx.allowedWeight, w |-> NotRun]
    ELSE
      LET ruleWeight == findMatchingRuleWeight(0, ctx.userRoles,
                                               ctx.provider, permissions)
      IN  IF ruleWeight = Diverges
          THEN [ret |-> "diverges", aw |-> ctx.allowedWeight, w |-> ruleWeight]
          ELSE IF ruleWeight = Throws
          THEN [ret |-> "throws", aw |-> ctx.allowedWeight, w |-> ruleWeight]
          ELSE IF \/ ruleWeight = False
                  \/ (ctx.allowedWeight # Null /\ ctx.allowedWeight < ruleWeight)
          THEN [ret |-> "false", aw |-> ctx.allowedWeight, w |-> ruleWeight]
          ELSE [ret |-> "true", aw |-> ctx.allowedWeight, w |-> ruleWeight]

isDenied(ctx, permissions) ==
    IF ~ctx.installed
    THEN [ret |-> "true", aw |-> ctx.allowedWeight, w |-> NotRun]
    ELSE
      LET ruleWeight == findMatchingRuleWeight(0, ctx.userRoles,
                                               ctx.provider, permissions)
      IN  IF ruleWeight = Diverges
          THEN [ret |-> "diverges", aw |-> ctx.allowedWeight, w |-> ruleWeight]
          ELSE IF ruleWeight = Throws
          THEN [ret |-> "throws", aw |-> ctx.allowedWeight, w |-> ruleWeight]
          ELSE IF \/ ruleWeight = False
                  \/ (ctx.allowedWeight # Null /\ ctx.allowedWeight < ruleWeight)
          THEN [ret |-> "false", aw |-> ctx.allowedWeight, w |-> ruleWeight]
          ELSE [ret |-> "true", aw |-> ctx.allowedWeight, w |-> ruleWeight]

\* `if (redirectUrl) this.redirect(redirectUrl) else status = 403`
Restricted(redirectUrl) == IF redirectUrl # "" THEN "redirected" ELSE "forbidden"

NoRule == [op |-> "none", first |-> FALSE, allow |-> NoQuery, deny |-> NoQuery,
           redirectUrl |-> "", before |-> Null,
           allowW |-> NotRun, denyW |-> NotRun, decision |-> "none"]

\* a rule that catches the error of the resolution and goes on down the pipe
Unfinished_swallowed(ret) == IF ret = "diverges" THEN "hung" ELSE "pass"

\* what a generator that never returns / that throws leaves behind
Unfinished(ret) == IF ret = "diverges" THEN "hung" ELSE "error"

\* history bookkeeping for `opening`: set by an allow that runs first on the
\* request, kept by the rule right after it, dropped by any later rule
Opening(op, permissions) ==
    IF last.op = "none"
    THEN (IF op = "allow" THEN permissions ELSE NoQuery)
    ELSE (IF last.first THEN opening ELSE NoQuery)

----------------------------------------------------------------------------
(* Rule construction: allow(permissions), deny(permissions) and            *)
(* check({allow, deny}) of lib/rbac, check(permissions) of koa-rbac.       *)
(* A JavaScript string is the sequence of its characters.                  *)

MaxSpecLen == 4
MaxItems == 2

Chars == {"r", "u", " ", ",", "&"}

\* a string value, and `undefined` (an argument or a key that is not given)
Str(s) == [type |-> "string", chars |-> s, items |-> <<>>]
Undefined == [type |-> "undefined", chars |-> <<>>, items |-> <<>>]

\* an array of values, and a value that is neither a string nor an array
\* (null, a boolean, a number, an object)
Arr(l) == [type |-> "array", chars |-> <<>>, items |-> l]
Other == [type |-> "other", chars |-> <<>>, items |-> <<>>]

\* truthiness of a value: `if (permissions['allow'])`
Truthy(v) == v.type = "string" /\ Len(v.chars) > 0

PERMISSION_SEP == ","

\* String.prototype.split on a one-character separator
RECURSIVE split(_, _)
split(s, sep) ==
    IF \E k \in 1..Len(s) : s[k] = sep
    THEN LET k == CHOOSE i \in 1..Len(s) :
                      s[i] = sep /\ \A j \in 1..(i - 1) : s[j] # sep
         IN  <<SubSeq(s, 1, k - 1)>> \o split(SubSeq(s, k + 1, Len(s)), sep)
    ELSE <<s>>

\* String.prototype.trim
RECURSIVE trim(_)
trim(s) ==
    IF s = <<>> THEN s
    ELSE IF Head(s) = " " THEN trim(Tail(s))
    ELSE IF s[Len(s)] = " " THEN trim(SubSeq(s, 1, Len(s) - 1))
    ELSE s

\* `(typeof perm === 'string') && perm.length` as a condition
NonEmpty(perm) == perm.type = "string" /\ Len(perm.chars) > 0

\* the elements of the list as values: the pieces of a split string, or the
\* items of an array
Pieces(permissions) ==
    IF permissions.type = "string"
    THEN LET parts == split(permissions.chars, PERMISSION_SEP)
         IN  [k \in 1..Len(parts) |-> Str(parts[k])]
    ELSE permissions.items

\* preparePermissionList that accepts a list left empty by the filter
preparePermissionList_noLengthTest(permissions) ==
    IF permissions.type \notin {"string", "array"}
    THEN [error |-> "Invalid permissions", list |-> <<>>]
    ELSE
      LET filtered == SelectSeq(Pieces(permissions), NonEmpty)
          mapped == [k \in 1..Len(filtered) |-> trim(filtered[k].chars)]
      IN  [error |-> "", list |-> mapped]

\* preparePermissionList(permissions): the list, or the message of the
\* InvalidRuleException thrown
preparePermissionList(permissions) ==
    IF permissions.type \notin {"string", "array"}
    THEN [error |-> "Invalid permissions", list |-> <<>>]
    ELSE
      LET filtered == SelectSeq(Pieces(permissions), NonEmpty)
          mapped == [k \in 1..Len(filtered) |-> trim(filtered[k].chars)]
      IN  IF Len(mapped) = 0
          THEN [error |-> "Invalid permissions", list |-> <<>>]
          ELSE [error |-> "", list |-> mapped]

\* what a constructor was given: `object` is FALSE when check is called
\* without a permissions object
Given(object, allowV, denyV) ==
    [object |-> object, allow |-> allowV, deny |-> denyV]

NoConstructor ==
    [ctor |-> "none", given |-> Given(FALSE, Undefined, Undefined),
     stage |-> "none", error |-> "", allow |-> NoQuery, deny |-> NoQuery]

\* the middleware function a constructor returned, or the exception thrown
Returned(allowP, denyP) ==
    [stage |-> "built", error |-> "", allow |-> allowP, deny |-> denyP]

Thrown(message) ==
    [stage |-> "failed", error |-> message, allow |-> NoQuery, deny |-> NoQuery]

\* lib/rbac allow(permissions, redirectUrl)
allow(permissions) ==
    LET p == preparePermissionList(permissions)
    IN  IF p.error # "" THEN Thrown(p.error) ELSE Returned(p.list, NoQuery)

\* lib/rbac deny(permissions, redirectUrl)
deny(permissions) ==
    LET p == preparePermissionList(permissions)
    IN  IF p.error # "" THEN Thrown(p.error) ELSE Returned(NoQuery, p.list)

\* lib/rbac check that returns a middleware when neither list is given
libCheck_noGuard(given) ==
    IF ~given.object THEN Thrown("Invalid permissions")
    ELSE
      LET a == IF Truthy(given.allow) THEN preparePermissionList(given.allow)
               ELSE [error |-> "", list |-> NoQuery]
          d == IF Truthy(given.deny) THEN preparePermissionList(given.deny)
               ELSE [error |-> "", list |-> NoQuery]
      IN  IF a.error # "" THEN Thrown(a.error)
          ELSE IF d.error # "" THEN Thrown(d.error)
          ELSE Returned(a.list, d.list)

\* lib/rbac check(permissions, redirectUrl)
libCheck(given) ==
    IF ~given.object THEN Thrown("Invalid permissions")
    ELSE
      LET a == IF Truthy(given.allow) THEN preparePermissionList(given.allow)
               ELSE [error |-> "", list |-> NoQuery]
          d == IF Truthy(given.deny) THEN preparePermissionList(given.deny)
               ELSE [error |-> "", list |-> NoQuery]
      IN  IF a.error # "" THEN Thrown(a.error)
          ELSE IF d.error # "" THEN Thrown(d.error)
          ELSE IF a.list = NoQuery /\ d.list = NoQuery
          THEN Thrown("Missing permissions")
          ELSE Returned(a.list, d.list)

\* koa-rbac check(permissions, params, redirectUrl): nothing is looked at
\* before a request comes; `permissions || {}`, `'allow' in permissions`
koaCheck(given) ==
    Returned(IF given.object /\ given.allow.type # "undefined"
             THEN given.allow.chars ELSE NoQuery,
             IF given.object /\ given.deny.type # "undefined"
             THEN given.deny.chars ELSE NoQuery)

----------------------------------------------------------------------------
(* Actions                                                                 *)

Init ==
    /\ app \in {"lib", "koa"}
    /\ options \in IF app = "lib" THEN {NoOptions}
                   ELSE [rbac : BOOLEAN, restrictionHandler : BOOLEAN]
    /\ user = ""
    /\ priority = NoPriority
    /\ provider \in Providers
    /\ installed \in BOOLEAN
    /\ userRoles = <<>>
    /\ allowedWeight = Null
    /\ status = "none"
    /\ last = NoRule
    /\ opening = NoQuery
    /\ rule = NoConstructor
    /\ accept = "text/html"
    /\ handled = <<>>
    /\ requests = NoRequests
    /\ resolution = NoResolution
    /\ ctxProperties = NoProperties
    /\ instances = NoInstances

\* A request enters the app. With rbac.middleware(provider) in the app the
\* context gets _accessProvider and _allowedWeight = null.
rbac ==
    /\ app = "lib"
    /\ status # "running"
    /\ \E u \in TestUsers : userRoles' = u
    /\ allowedWeight' = Null
    /\ status' = "running"
    /\ last' = NoRule
    /\ opening' = NoQuery
    /\ UNCHANGED <<instances, ctxProperties, resolution, requests, accept,
                   handled, rule, app, options, user, priority, provider,
                   installed>>

\* allow(permissions, redirectUrl) -> allowPermissions
allowPermissions(permissions, redirectUrl) ==
    /\ app = "lib"
    /\ status = "running"
    /\ LET a == isAllowed(Ctx, permissions)
           decision == CASE a.ret = "true"  -> "pass"
                         [] a.ret = "false" -> "restrict"
                         [] OTHER           -> Unfinished(a.ret)
       IN  /\ allowedWeight' = a.aw
           /\ status' = CASE decision = "pass"     -> "running"
                          [] decision = "restrict" -> Restricted(redirectUrl)
                          [] OTHER                 -> decision
           /\ last' = [op |-> "allow", first |-> (last.op = "none"), allow |-> permissions, deny |-> NoQuery,
                       redirectUrl |-> redirectUrl, before |-> allowedWeight,
                       allowW |-> a.w, denyW |-> NotRun, decision |-> decision]
    /\ opening' = Opening("allow", permissions)
    /\ UNCHANGED <<instances, ctxProperties, resolution, requests, accept,
                   handled, rule, app, options, user, priority, provider,
                   installed, userRoles>>

\* deny(permissions, redirectUrl) -> denyPermissions
denyPermissions(permissions, redirectUrl) ==
    /\ app = "lib"
    /\ status = "running"
    /\ LET d == isDenied(Ctx, permissions)
           decision == CASE d.ret = "true"  -> "restrict"
                         [] d.ret = "false" -> "pass"
                         [] OTHER           -> Unfinished(d.ret)
       IN  /\ allowedWeight' = d.aw
           /\ status' = CASE decision = "pass"     -> "running"
                          [] decision = "restrict" -> Restricted(redirectUrl)
                          [] OTHER                 -> decision
           /\ last' = [op |-> "deny", first |-> (last.op = "none"), allow |-> NoQuery, deny |-> permissions,
                       redirectUrl |-> redirectUrl, before |-> allowedWeight,
                       allowW |-> NotRun, denyW |-> d.w, decision |-> decision]
    /\ opening' = Opening("deny", permissions)
    /\ UNCHANGED <<instances, ctxProperties, resolution, requests, accept,
                   handled, rule, app, options, user, priority, provider,
                   installed, userRoles>>

\* checkPermissions whose deny part reads the allowed weight as it was
\* before the allow part ran
checkPermissions_staleWeight(allowP, denyP, redirectUrl) ==
    /\ app = "lib"
    /\ status = "running"
    /\ LET a == IF allowP = NoQuery
                THEN [ret |-> "true", aw |-> allowedWeight, w |-> NotRun]
                ELSE isAllowed(Ctx, allowP)
           d == IF denyP = NoQuery \/ a.ret # "true"
                THEN [ret |-> "false", aw |-> a.aw, w |-> NotRun]
                ELSE isDenied(Ctx, denyP)
           decision == CASE a.ret \in {"diverges", "throws"} -> Unfinished(a.ret)
                         [] a.ret = "false"                  -> "restrict"
                         [] d.ret \in {"diverges", "throws"} -> Unfinished(d.ret)
                         [] d.ret = "true"                   -> "restrict"
                         [] OTHER                            -> "pass"
       IN  /\ allowedWeight' = a.aw
           /\ status' = CASE decision = "pass"     -> "running"
                          [] decision = "restrict" -> Restricted(redirectUrl)
                          [] OTHER                 -> decision
           /\ last' = [op |-> "check", first |-> (last.op = "none"),
                       allow |-> allowP, deny |-> denyP,
                       redirectUrl |-> redirectUrl, before |-> allowedWeight,
                       allowW |-> a.w, denyW |-> d.w, decision |-> decision]
    /\ opening' = Opening("check", allowP)
    /\ UNCHANGED <<instances, ctxProperties, resolution, requests, accept,
                   handled, rule, app, options, user, priority, provider,
                   installed, userRoles>>

\* checkPermissions whose allow part decides like isAllowed but records no
\* allowed weight on the request
checkPermissions_noRecord(allowP, denyP, redirectUrl) ==
    /\ app = "lib"
    /\ status = "running"
    /\ LET a == IF allowP = NoQuery
                THEN [ret |-> "true", aw |-> allowedWeight, w |-> NotRun]
                ELSE isAllowed(Ctx, allowP)
           d == IF denyP = NoQuery \/ a.ret # "true"
                THEN [ret |-> "false", aw |-> a.aw, w |-> NotRun]
                ELSE isDenied([Ctx EXCEPT !.allowedWeight = a.aw], denyP)
           decision == CASE a.ret \in {"diverges", "throws"} -> Unfinished(a.ret)
                         [] a.ret = "false"                  -> "restrict"
                         [] d.ret \in {"diverges", "throws"} -> Unfinished(d.ret)
                         [] d.ret = "true"                   -> "restrict"
                         [] OTHER                            -> "pass"
       IN  /\ allowedWeight' = allowedWeight
           /\ status' = CASE decision = "pass"     -> "running"
                          [] decision = "restrict" -> Restricted(redirectUrl)
                          [] OTHER                 -> decision
           /\ last' = [op |-> "check", first |-> (last.op = "none"),
                       allow |-> allowP, deny |-> denyP,
                       redirectUrl |-> redirectUrl, before |-> allowedWeight,
                       allowW |-> a.w, denyW |-> d.w, decision |-> decision]
    /\ opening' = Opening("check", allowP)
    /\ UNCHANGED <<instances, ctxProperties, resolution, requests, accept,
                   handled, rule, app, options, user, priority, provider,
                   installed, userRoles>>

\* check({allow, deny}, redirectUrl) -> checkPermissions
\*   (!allowPermissions || isAllowed) && !(denyPermissions && isDenied)
checkPermissions(allowP, denyP, redirectUrl) ==
    /\ app = "lib"
    /\ status = "running"
    /\ LET a == IF allowP = NoQuery
                THEN [ret |-> "true", aw |-> allowedWeight, w |-> NotRun]
                ELSE isAllowed(Ctx, allowP)
           d == IF denyP = NoQuery \/ a.ret # "true"
                THEN [ret |-> "false", aw |-> a.aw, w |-> NotRun]
                ELSE isDenied([Ctx EXCEPT !.allowedWeight = a.aw], denyP)
           decision == CASE a.ret \in {"diverges", "throws"} -> Unfinished(a.ret)
                         [] a.ret = "false"                  -> "restrict"
                         [] d.ret \in {"diverges", "throws"} -> Unfinished(d.ret)
                         [] d.ret = "true"                   -> "restrict"
                         [] OTHER                            -> "pass"
       IN  /\ allowedWeight' = d.aw
           /\ status' = CASE decision = "pass"     -> "running"
                          [] decision = "restrict" -> Restricted(redirectUrl)
                          [] OTHER                 -> decision
           /\ last' = [op |-> "check", first |-> (last.op = "none"), allow |-> allowP, deny |-> denyP,
                       redirectUrl |-> redirectUrl, before |-> allowedWeight,
                       allowW |-> a.w, denyW |-> d.w, decision |-> decision]
    /\ opening' = Opening("check", allowP)
    /\ UNCHANGED <<instances, ctxProperties, resolution, requests, accept,
                   handled, rule, app, options, user, priority, provider,
                   installed, userRoles>>

\* the downstream handler at the end of the pipe (`this.status = 200`)
handler ==
    /\ status = "running"
    /\ status' = "handled"
    /\ UNCHANGED <<instances, ctxProperties, resolution, requests, accept,
                   handled, rule, app, options, user, priority, provider,
                   installed, userRoles, allowedWeight, last, opening>>

Allow == \E q \in Queries, r \in RedirectUrls : allowPermissions(q, r)
Deny  == \E q \in Queries, r \in RedirectUrls : denyPermissions(q, r)
Check ==
    \E a \in Queries \cup {NoQuery}, d \in Queries \cup {NoQuery},
       r \in RedirectUrls :
        /\ ~(a = NoQuery /\ d = NoQuery)    \* check() throws 'Missing permissions'
        /\ checkPermissions(a, d, r)

----------------------------------------------------------------------------
(* koa-rbac.js                                                             *)

\* ctx.rbac.check that asks for the priority without looking for the RBAC
\* instance
check_withoutInstance(permissions) ==
    IF user = "" THEN NaN
    ELSE priority[permissions]

\* ctx.rbac.check(permissions, params): NaN without an RBAC instance or
\* without a user, else what the instance's check resolves to (Rejected when
\* its promise is rejected)
check(permissions) ==
    IF ~options.rbac THEN NaN
    ELSE IF user = "" THEN NaN
    ELSE priority[permissions]

isNaN(x) == x = NaN

\* one call options.restrictionHandler(ctx, permissions, redirectUrl)
HandlerCall(permissions, redirectUrl) ==
    [permissions |-> permissions, redirectUrl |-> redirectUrl]

\* _restrict that never calls the restriction handler
restrict_defaultOnly(permissions, redirectUrl) ==
    [status |-> IF redirectUrl # "" THEN "redirected" ELSE "forbidden",
     handled |-> handled]

\* ctx.rbac._restrict(permissions, redirectUrl): the response it leaves and
\* the calls the restriction handler has received
restrict(permissions, redirectUrl) ==
    IF options.restrictionHandler
    THEN [status |-> "handled by restrictionHandler",
          handled |-> Append(handled, HandlerCall(permissions, redirectUrl))]
    ELSE IF redirectUrl # ""
    THEN [status |-> "redirected", handled |-> handled]
    ELSE [status |-> "forbidden", handled |-> handled]

\* A request enters the app. With middleware(options) in the app the context
\* gets ctx.rbac.
middleware ==
    /\ app = "koa"
    /\ status # "running"
    /\ user' \in {"", "homer"}
    /\ priority' \in [KoaQueries -> Priorities]
    /\ status' = "running"
    /\ last' = NoRule
    /\ handled' = <<>>
    /\ UNCHANGED <<instances, ctxProperties, resolution, requests, accept,
                   rule, app, options, provider, installed, userRoles,
                   allowedWeight, opening>>

allowMiddleware(permissions, redirectUrl) ==
    /\ app = "koa"
    /\ status = "running"
    /\ LET allowedPriority == IF installed THEN check(permissions) ELSE NotRun
           fails == allowedPriority = Rejected
           restricts == installed /\ ~fails
                           /\ (isNaN(allowedPriority) \/ allowedPriority = 0)
       IN  /\ handled' = IF restricts THEN restrict(permissions, redirectUrl).handled
                       ELSE handled
           /\ status' = IF fails THEN "error"
                        ELSE IF restricts THEN restrict(permissions, redirectUrl).status
                        ELSE "running"
           /\ last' = [op |-> "allowMiddleware", first |-> (last.op = "none"),
                       allow |-> permissions, deny |-> NoQuery,
                       redirectUrl |-> redirectUrl, before |-> allowedWeight,
                       allowW |-> allowedPriority, denyW |-> NotRun,
                       decision |-> IF fails THEN "error"
                                    ELSE IF restricts THEN "restrict"
                                    ELSE "pass"]
    /\ UNCHANGED <<instances, ctxProperties, resolution, requests, accept,
                   rule, app, options, user, priority, provider, installed,
                   userRoles, allowedWeight, opening>>

\* denyMiddleware that lets pass what an earlier allow rule let pass
denyMiddleware_afterAllow(permissions, redirectUrl) ==
    /\ app = "koa"
    /\ status = "running"
    /\ LET deniedPriority == IF installed THEN check(permissions) ELSE NotRun
           fails == deniedPriority = Rejected
           restricts == installed /\ ~fails
                           /\ ~(isNaN(deniedPriority) \/ deniedPriority = 0)
                           /\ last.op # "allowMiddleware"
       IN  /\ handled' = IF restricts THEN restrict(permissions, redirectUrl).handled
                       ELSE handled
           /\ status' = IF ~installed THEN "forbidden"
                        ELSE IF fails THEN "error"
                        ELSE IF restricts THEN restrict(permissions, redirectUrl).status
                        ELSE "running"
           /\ last' = [op |-> "denyMiddleware", first |-> (last.op = "none"),
                       allow |-> NoQuery, deny |-> permissions,
                       redirectUrl |-> redirectUrl, before |-> allowedWeight,
                       allowW |-> NotRun, denyW |-> deniedPriority,
                       decision |-> IF fails THEN "error"
                                    ELSE IF restricts \/ ~installed
                                    THEN "restrict" ELSE "pass"]
    /\ UNCHANGED <<instances, ctxProperties, resolution, requests, accept,
                   rule, app, options, user, priority, provider, installed,
                   userRoles, allowedWeight, opening>>

denyMiddleware(permissions, redirectUrl) ==
    /\ app = "koa"
    /\ status = "running"
    /\ LET deniedPriority == IF installed THEN check(permissions) ELSE NotRun
           fails == deniedPriority = Rejected
           restricts == installed /\ ~fails
                           /\ ~(isNaN(deniedPriority) \/ deniedPriority = 0)
       IN  /\ handled' = IF restricts THEN restrict(permissions, redirectUrl).handled
                       ELSE handled
           /\ status' = IF ~installed THEN "forbidden"
                        ELSE IF fails THEN "error"
                        ELSE IF restricts THEN restrict(permissions, redirectUrl).status
                        ELSE "running"
           /\ last' = [op |-> "denyMiddleware", first |-> (last.op = "none"),
                       allow |-> NoQuery, deny |-> permissions,
                       redirectUrl |-> redirectUrl, before |-> allowedWeight,
                       allowW |-> NotRun, denyW |-> deniedPriority,
                       decision |-> IF fails THEN "error"
                                    ELSE IF restricts \/ ~installed
                                    THEN "restrict" ELSE "pass"]
    /\ UNCHANGED <<instances, ctxProperties, resolution, requests, accept,
                   rule, app, options, user, priority, provider, installed,
                   userRoles, allowedWeight, opening>>

\* checkMiddleware with `<` for `<=`: a denial of equal priority passes
checkMiddleware_tiePasses(allowP, denyP, redirectUrl) ==
    /\ app = "koa"
    /\ status = "running"
    /\ LET allowedPriority == IF ~installed THEN NotRun
                              ELSE IF allowP # NoQuery THEN check(allowP)
                              ELSE Infinity
           deniedPriority == IF ~installed \/ allowedPriority = Rejected
                             THEN NotRun
                             ELSE IF denyP # NoQuery THEN check(denyP)
                             ELSE Infinity
           fails == allowedPriority = Rejected \/ deniedPriority = Rejected
           restricts ==
               /\ installed /\ ~fails
               /\ \/ isNaN(allowedPriority)
                  \/ (~isNaN(deniedPriority) /\ deniedPriority < allowedPriority)
       IN  /\ handled' = IF restricts THEN restrict([allow |-> allowP, deny |-> denyP], redirectUrl).handled
                       ELSE handled
           /\ status' = IF fails THEN "error"
                        ELSE IF restricts THEN restrict([allow |-> allowP, deny |-> denyP], redirectUrl).status
                        ELSE "running"
           /\ last' = [op |-> "checkMiddleware", first |-> (last.op = "none"),
                       allow |-> allowP, deny |-> denyP,
                       redirectUrl |-> redirectUrl, before |-> allowedWeight,
                       allowW |-> allowedPriority, denyW |-> deniedPriority,
                       decision |-> IF fails THEN "error"
                                    ELSE IF restricts THEN "restrict"
                                    ELSE "pass"]
    /\ UNCHANGED <<instances, ctxProperties, resolution, requests, accept,
                   rule, app, options, user, priority, provider, installed,
                   userRoles, allowedWeight, opening>>

\* permissions = {allow: allowP, deny: denyP}; NoQuery for a key not given
checkMiddleware(allowP, denyP, redirectUrl) ==
    /\ app = "koa"
    /\ status = "running"
    /\ LET allowedPriority == IF ~installed THEN NotRun
                              ELSE IF allowP # NoQuery THEN check(allowP)
                              ELSE Infinity
           deniedPriority == IF ~installed \/ allowedPriority = Rejected
                             THEN NotRun
                             ELSE IF denyP # NoQuery THEN check(denyP)
                             ELSE Infinity
           fails == allowedPriority = Rejected \/ deniedPriority = Rejected
           restricts ==
               /\ installed /\ ~fails
               /\ \/ isNaN(allowedPriority)
                  \/ (~isNaN(deniedPriority) /\ deniedPriority <= allowedPriority)
       IN  /\ handled' = IF restricts THEN restrict([allow |-> allowP, deny |-> denyP], redirectUrl).handled
                       ELSE handled
           /\ status' = IF fails THEN "error"
                        ELSE IF restricts THEN restrict([allow |-> allowP, deny |-> denyP], redirectUrl).status
                        ELSE "running"
           /\ last' = [op |-> "checkMiddleware", first |-> (last.op = "none"),
                       allow |-> allowP, deny |-> denyP,
                       redirectUrl |-> redirectUrl, before |-> allowedWeight,
                       allowW |-> allowedPriority, denyW |-> deniedPriority,
                       decision |-> IF fails THEN "error"
                                    ELSE IF restricts THEN "restrict"
                                    ELSE "pass"]
    /\ UNCHANGED <<instances, ctxProperties, resolution, requests, accept,
                   rule, app, options, user, priority, provider, installed,
                   userRoles, allowedWeight, opening>>

KoaAllow == \E q \in KoaQueries, r \in RedirectUrls : allowMiddleware(q, r)
KoaDeny  == \E q \in KoaQueries, r \in RedirectUrls : denyMiddleware(q, r)
KoaCheck ==
    \E a \in KoaQueries \cup {NoQuery}, d \in KoaQueries \cup {NoQuery},
       r \in RedirectUrls : checkMiddleware(a, d, r)

Next ==
    \/ rbac \/ Allow \/ Deny \/ Check
    \/ middleware \/ KoaAllow \/ KoaDeny \/ KoaCheck
    \/ handler

Spec == Init /\ [][Next]_vars

----------------------------------------------------------------------------
(* The resolution alone, over every small provider (SpecResolve)           *)

InitResolve ==
    /\ app = "lib"
    /\ options = NoOptions
    /\ user = ""
    /\ priority = NoPriority
    /\ provider \in GenProviders
    /\ installed = TRUE
    /\ userRoles \in GenUsers
    /\ allowedWeight = Null
    /\ status = "running"
    /\ last = NoRule
    /\ opening = NoQuery
    /\ rule = NoConstructor
    /\ accept = "text/html"
    /\ handled = <<>>
    /\ requests = NoRequests
    /\ resolution = NoResolution
    /\ ctxProperties = NoProperties
    /\ instances = NoInstances

\* ruleWeight = yield findMatchingRuleWeight(0, userRoles, provider, permissions)
resolve(permissions) ==
    /\ status = "running"
    /\ last.op = "none"
    /\ last' = [NoRule EXCEPT !.op = "resolve", !.first = TRUE,
                              !.allow = permissions,
                              !.allowW = findMatchingRuleWeight(0, userRoles,
                                             provider, permissions)]
    /\ status' = "resolved"
    /\ UNCHANGED <<instances, ctxProperties, resolution, requests, accept,
                   handled, rule, app, options, user, priority, provider,
                   installed, userRoles, allowedWeight, opening>>

Resolve == \E q \in GenQueries : resolve(q)

NextResolve == Resolve

SpecResolve == InitResolve /\ [][NextResolve]_vars

----------------------------------------------------------------------------
(* A rule is constructed from a permission specification and then serves   *)
(* one request (SpecRule)                                                  *)

\* the roles of the tests that hold 'read' and 'update', the permissions
\* written with one character
ShortRoles ==
    [r \in {"reader", "editor", "admin"} |->
        CASE r = "reader" -> Role({<<"r">>}, <<>>)
          [] r = "editor" -> Role({<<"u">>}, <<"reader">>)
          [] r = "admin"  -> Role({<<"m">>}, <<>>)]

ShortUsers == { <<"editor">>, <<"reader">>, <<"admin">>, <<>> }

SpecStrings == SeqsUpTo(Chars, MaxSpecLen)

\* the items of the arrays given to allow and deny
ArrayItems == {Str(<<>>), Str(<<" ">>), Str(<<"r">>), Str(<<"u">>), Other}

SpecArrays == {Arr(l) : l \in SeqsUpTo(ArrayItems, MaxItems)}

\* the permissions objects given to check: each key absent or a string of
\* at most one character
CheckValues == {Undefined} \cup {Str(s) : s \in SeqsUpTo(Chars, 1)}

\* koa-rbac: the permission values given under a key of check
KoaValues == {Undefined, Str(<<"r">>), Str(<<"u">>)}

KoaShortQueries == { <<"r">>, <<"u">> }

Called(ctor, given) ==
    [NoConstructor EXCEPT !.ctor = ctor, !.given = given, !.stage = "given"]

LibCalls ==
    {Called(c, Given(TRUE, v, Undefined)) :
        c \in {"allow", "deny"},
        v \in {Undefined, Other} \cup {Str(s) : s \in SpecStrings} \cup SpecArrays}
    \cup {Called("check", Given(TRUE, a, d)) : a \in CheckValues, d \in CheckValues}
    \cup {Called("check", Given(FALSE, Undefined, Undefined))}

KoaCalls ==
    {Called("koaCheck", Given(o, a, d)) :
        o \in BOOLEAN, a \in KoaValues, d \in KoaValues}

InitRule ==
    /\ app \in {"lib", "koa"}
    /\ rule \in IF app = "lib" THEN LibCalls ELSE KoaCalls
    /\ options = IF app = "lib" THEN NoOptions
                 ELSE [rbac |-> TRUE, restrictionHandler |-> FALSE]
    /\ user \in IF app = "lib" THEN {""} ELSE {"", "homer"}
    /\ priority \in IF app = "lib" THEN {NoPriority}
                    ELSE [KoaShortQueries -> Priorities]
    /\ provider = ShortRoles
    /\ installed \in IF app = "lib" THEN {TRUE} ELSE BOOLEAN
    /\ userRoles \in IF app = "lib" THEN ShortUsers ELSE {<<>>}
    /\ allowedWeight = Null
    /\ status = "running"
    /\ last = NoRule
    /\ opening = NoQuery
    /\ accept \in AcceptHeaders
    /\ handled = <<>>
    /\ requests = NoRequests
    /\ resolution = NoResolution
    /\ ctxProperties = NoProperties
    /\ instances = NoInstances

\* the constructor runs: it returns the middleware function or throws
construct ==
    /\ rule.stage = "given"
    /\ LET r == CASE rule.ctor = "allow" -> allow(rule.given.allow)
                  [] rule.ctor = "deny"  -> deny(rule.given.allow)
                  [] rule.ctor = "check" -> libCheck(rule.given)
                  [] OTHER               -> koaCheck(rule.given)
       IN  rule' = [rule EXCEPT !.stage = r.stage, !.error = r.error,
                                !.allow = r.allow, !.deny = r.deny]
    /\ UNCHANGED <<instances, ctxProperties, resolution, requests, accept,
                   handled, app, options, user, priority, provider, installed,
                   userRoles, allowedWeight, status, last, opening>>

\* the middleware function returned serves the request
ServeAllow ==
    /\ rule.stage = "built" /\ rule.ctor = "allow" /\ last.op = "none"
    /\ \E r \in RedirectUrls : allowPermissions(rule.allow, r)

ServeDeny ==
    /\ rule.stage = "built" /\ rule.ctor = "deny" /\ last.op = "none"
    /\ \E r \in RedirectUrls : denyPermissions(rule.deny, r)

ServeCheck ==
    /\ rule.stage = "built" /\ rule.ctor = "check" /\ last.op = "none"
    /\ \E r \in RedirectUrls : checkPermissions(rule.allow, rule.deny, r)

ServeKoaCheck ==
    /\ rule.stage = "built" /\ rule.ctor = "koaCheck" /\ last.op = "none"
    /\ \E r \in RedirectUrls : checkMiddleware(rule.allow, rule.deny, r)

NextRule ==
    \/ construct
    \/ ServeAllow \/ ServeDeny \/ ServeCheck \/ ServeKoaCheck

SpecRule == InitRule /\ [][NextRule]_vars

----------------------------------------------------------------------------
(* The middleware is registered with a provider or with options, and then  *)
(* serves requests (SpecSetup)                                             *)

\* what rbac.middleware(provider) is given: `object` is FALSE for a value
\* that is falsy or whose typeof is not 'object'; the other two fields tell
\* whether the property is an instance of Function
ProviderValues ==
    [object : BOOLEAN, getRolePermissions : BOOLEAN, getUserRoles : BOOLEAN]

\* what a key of the options of koa-rbac holds
KeyValues == {"absent", "valid", "invalid"}

\* what middleware(options) of koa-rbac is given: no options at all, or an
\* object with each of the three keys absent, valid or invalid
OptionValues ==
    {[present |-> FALSE, rbac |-> "absent", identity |-> "absent",
      restrictionHandler |-> "absent"]}
    \cup [present : {TRUE}, rbac : KeyValues, identity : KeyValues,
          restrictionHandler : KeyValues]

Registered(opts) ==
    [stage |-> "built", exception |-> "", error |-> "", options |-> opts]

Refused(exception, message) ==
    [stage |-> "failed", exception |-> exception, error |-> message,
     options |-> NoOptions]

\* (the messages are written without their backquotes)

\* lib/rbac middleware(provider) without the test of getUserRoles
libMiddleware_noUserRolesTest(p) ==
    IF ~p.object
    THEN Refused("InvalidProviderException", "Invalid provider")
    ELSE IF ~p.getRolePermissions
    THEN Refused("InvalidProviderException",
                 "Missing function getRolePermissions in provider")
    ELSE Registered(NoOptions)

\* lib/rbac middleware(provider)
libMiddleware(p) ==
    IF ~p.object
    THEN Refused("InvalidProviderException", "Invalid provider")
    ELSE IF ~p.getRolePermissions
    THEN Refused("InvalidProviderException",
                 "Missing function getRolePermissions in provider")
    ELSE IF ~p.getUserRoles
    THEN Refused("InvalidProviderException",
                 "Missing function getUserRoles in provider")
    ELSE Registered(NoOptions)

\* the options the returned middleware of koa-rbac works with
KeptOptions(o) ==
    [rbac |-> o.rbac = "valid",
     identity |-> IF o.identity = "absent" THEN "defaultIdentity"
                  ELSE "supplied",
     restrictionHandler |-> o.restrictionHandler = "valid"]

\* koa-rbac middleware(options) without the test of restrictionHandler
koaMiddleware_noHandlerTest(o) ==
    IF o.rbac = "invalid"
    THEN Refused("InvalidOptionException", "Invalid RBAC instance")
    ELSE IF o.identity = "invalid"
    THEN Refused("InvalidOptionException", "Invalid identity function")
    ELSE Registered(KeptOptions(o))

\* koa-rbac middleware(options)
koaMiddleware(o) ==
    IF o.rbac = "invalid"
    THEN Refused("InvalidOptionException", "Invalid RBAC instance")
    ELSE IF o.identity = "invalid"
    THEN Refused("InvalidOptionException", "Invalid identity function")
    ELSE IF o.restrictionHandler = "invalid"
    THEN Refused("InvalidOptionException", "Invalid restriction handler")
    ELSE Registered(KeptOptions(o))

Registering(ctor, given) ==
    [ctor |-> ctor, given |-> given, stage |-> "given", exception |-> "",
     error |-> ""]

InitSetup ==
    /\ app \in {"lib", "koa"}
    /\ rule \in IF app = "lib"
                THEN {Registering("middleware", p) : p \in ProviderValues}
                ELSE {Registering("koaMiddleware", o) : o \in OptionValues}
    /\ options = NoOptions
    /\ user = ""
    /\ priority = NoPriority
    /\ provider = TestRoles
    /\ installed = FALSE
    /\ userRoles = <<>>
    /\ allowedWeight = Null
    /\ status = "none"
    /\ last = NoRule
    /\ opening = NoQuery
    /\ accept = "text/html"
    /\ handled = <<>>
    /\ requests = NoRequests
    /\ resolution = NoResolution
    /\ ctxProperties = NoProperties
    /\ instances = NoInstances

\* the app calls middleware(...) and uses what it returns
register ==
    /\ rule.stage = "given"
    /\ LET r == IF rule.ctor = "middleware" THEN libMiddleware(rule.given)
                ELSE koaMiddleware(rule.given)
       IN  /\ rule' = [rule EXCEPT !.stage = r.stage,
                                   !.exception = r.exception,
                                   !.error = r.error]
           /\ installed' = (r.stage = "built")
           /\ options' = r.options
    /\ UNCHANGED <<instances, ctxProperties, resolution, requests, accept,
                   handled, app, user, priority, provider, userRoles,
                   allowedWeight, status, last, opening>>

\* the app serves requests through the registered middleware
Serve == rule.stage = "built" /\ Next

NextSetup == register \/ Serve

SpecSetup == InitSetup /\ [][NextSetup]_vars

----------------------------------------------------------------------------
(* Two requests go through the same pipe of lib/rbac together; each runs   *)
(* from one yield to the next in one step (SpecConcurrent)                 *)

\* the two requests
Requests == {1, 2}

\* every context shares one holder of _allowedWeight
ctxOf_shared(r) == 1

\* Object.defineProperties(this, ctxProperties): the context that carries the
\* _allowedWeight of request r is its own
ctxOf(r) == r

PipeRule(op, allowP, denyP) == [op |-> op, allow |-> allowP, deny |-> denyP]

\* the rules a pipe is made of
PipeRules ==
    { PipeRule("allow", <<"read">>, NoQuery),
      PipeRule("allow", <<"update">>, NoQuery),
      PipeRule("deny", NoQuery, <<"update">>),
      PipeRule("check", <<"read">>, <<"update">>) }

\* the pipes of one or two rules
Pipes == {<<a>> : a \in PipeRules} \cup {<<a, b>> : a, b \in PipeRules}

\* bart, marge and burns
ConcurrentUsers == { <<"guest", "reader">>, <<"editor">>, <<"admin">> }

\* a request that has not entered the pipe
NewRequest(roles) ==
    [userRoles |-> roles, status |-> "new", pc |-> 1, at |-> "idle",
     part |-> "allow", k |-> 0, decisions |-> <<>>]

\* the context of request r as isAllowed and isDenied see it
CtxAt(r) ==
    [installed |-> TRUE, provider |-> provider,
     userRoles |-> requests.run[r].userRoles,
     allowedWeight |-> requests.weight[ctxOf(r)]]

\* a whole rule on a context, with nothing in between: what it leaves in
\* _allowedWeight and what it decides
runRule(ctx, r) ==
    LET a == IF r.allow # NoQuery THEN isAllowed(ctx, r.allow)
             ELSE [ret |-> "true", aw |-> ctx.allowedWeight, w |-> NotRun]
        d == IF r.deny # NoQuery
             THEN isDenied([ctx EXCEPT !.allowedWeight = a.aw], r.deny)
             ELSE [ret |-> "false", aw |-> a.aw, w |-> NotRun]
    IN  IF a.ret \in {"throws", "diverges"}
        THEN [aw |-> a.aw, decision |-> "error"]
        ELSE IF a.ret = "false" THEN [aw |-> a.aw, decision |-> "restrict"]
        ELSE IF d.ret \in {"throws", "diverges"}
        THEN [aw |-> a.aw, decision |-> "error"]
        ELSE IF d.ret = "true" THEN [aw |-> a.aw, decision |-> "restrict"]
        ELSE [aw |-> a.aw, decision |-> "pass"]

InitConcurrent ==
    /\ app = "lib"
    /\ options = NoOptions
    /\ user = ""
    /\ priority = NoPriority
    /\ provider = TestRoles
    /\ installed = TRUE
    /\ userRoles = <<>>
    /\ allowedWeight = Null
    /\ status = "none"
    /\ last = NoRule
    /\ opening = NoQuery
    /\ rule = NoConstructor
    /\ accept = "text/html"
    /\ handled = <<>>
    /\ \E pipe \in Pipes, u \in [Requests -> ConcurrentUsers] :
          requests = [pipe |-> pipe,
                      weight |-> [c \in Requests |-> Null],
                      run |-> [r \in Requests |-> NewRequest(u[r])]]
    /\ resolution = NoResolution
    /\ ctxProperties = NoProperties
    /\ instances = NoInstances

\* the permissions of the resolution request r is in
Resolving(r) ==
    LET q == requests.run[r]
    IN  IF q.part = "allow" THEN requests.pipe[q.pc].allow
        ELSE requests.pipe[q.pc].deny

\* isAllowed or isDenied of request r got its rule weight: it reads and
\* writes ctx._allowedWeight, and the rule restricts, goes on with isDenied
\* (check) or yields to the next rule
finished(r) ==
    LET q == requests.run[r]
        r0 == requests.pipe[q.pc]
        res == IF q.part = "allow" THEN isAllowed(CtxAt(r), r0.allow)
               ELSE isDenied(CtxAt(r), r0.deny)
        fails == res.ret \in {"throws", "diverges"}
        restricts == IF q.part = "allow" THEN res.ret = "false"
                     ELSE res.ret = "true"
        more == q.part = "allow" /\ r0.deny # NoQuery
    IN  [requests EXCEPT
            !.weight[ctxOf(r)] = res.aw,
            !.run[r] =
                IF fails
                THEN [q EXCEPT !.status = "error", !.at = "idle",
                               !.decisions = Append(@, "error")]
                ELSE IF restricts
                THEN [q EXCEPT !.status = "restricted", !.at = "idle",
                               !.decisions = Append(@, "restrict")]
                ELSE IF more
                THEN [q EXCEPT !.part = "deny", !.at = "userRoles", !.k = 0]
                ELSE [q EXCEPT !.pc = @ + 1, !.at = "idle", !.k = 0,
                               !.decisions = Append(@, "pass"),
                               !.status = IF q.pc = Len(requests.pipe)
                                          THEN "handled" ELSE "running"]]

Others ==
    <<app, options, user, priority, provider, installed, userRoles,
      allowedWeight, status, last, opening, rule, accept, handled,
      resolution, ctxProperties, instances>>

\* function * rbac(next): the request enters the pipe and its context gets
\* _allowedWeight = null
enter(r) ==
    /\ requests.run[r].status = "new"
    /\ requests' = [requests EXCEPT !.weight[ctxOf(r)] = Null,
                                    !.run[r].status = "running"]
    /\ UNCHANGED Others

\* the next rule of the pipe calls isAllowed or isDenied, which suspends at
\* `yield (ctx._accessProvider.getUserRoles)(ctx)`
begin(r) ==
    /\ requests.run[r].status = "running"
    /\ requests.run[r].at = "idle"
    /\ requests' = [requests EXCEPT
          !.run[r].at = "userRoles",
          !.run[r].k = 0,
          !.run[r].part = IF requests.pipe[requests.run[r].pc].allow # NoQuery
                          THEN "allow" ELSE "deny"]
    /\ UNCHANGED Others

\* getUserRoles answered: findMatchingRuleWeight runs to its first
\* `yield (provider.getRolePermissions)(roles[i])`, or to its end
gotUserRoles(r) ==
    /\ requests.run[r].at = "userRoles"
    /\ LET trace == fetched(0, requests.run[r].userRoles, provider,
                            Resolving(r))
       IN  requests' = IF Len(trace) > 0
                       THEN [requests EXCEPT !.run[r].at = "fetch",
                                             !.run[r].k = 0]
                       ELSE finished(r)
    /\ UNCHANGED Others

\* getRolePermissions answered: findMatchingRuleWeight runs to its next
\* fetch, or to its end
gotRolePermissions(r) ==
    /\ requests.run[r].at = "fetch"
    /\ LET trace == fetched(0, requests.run[r].userRoles, provider,
                            Resolving(r))
       IN  requests' = IF requests.run[r].k + 1 < Len(trace)
                       THEN [requests EXCEPT !.run[r].k = @ + 1]
                       ELSE finished(r)
    /\ UNCHANGED Others

Enter == \E r \in Requests : enter(r)

Begin == \E r \in Requests : begin(r)

GotUserRoles == \E r \in Requests : gotUserRoles(r)

GotRolePermissions == \E r \in Requests : gotRolePermissions(r)

NextConcurrent == Enter \/ Begin \/ GotUserRoles \/ GotRolePermissions

SpecConcurrent == InitConcurrent /\ [][NextConcurrent]_vars

----------------------------------------------------------------------------
(* One resolution followed from one yield of getRolePermissions to the     *)
(* next (SpecFetch)                                                        *)

\* the generator frame of findMatchingRuleWeight(depth, roles, ...): `owner`
\* is the role whose `inherited` the frame walks ("" for the user's roles),
\* i and weight are the locals of the loop
Frame(depth, roles, owner) ==
    [depth |-> depth, roles |-> roles, owner |-> owner, i |-> 1,
     weight |-> False]

\* a loop that asks for all the roles it has left at once
issue_all(frame) ==
    [k \in 1..(Len(frame.roles) - frame.i + 1) |->
        [name |-> frame.roles[frame.i + k - 1], depth |-> frame.depth,
         owner |-> frame.owner]]

\* `role = yield (provider.getRolePermissions)(roles[i])`: the one fetch
\* the frame waits for
issue(frame) ==
    << [name |-> frame.roles[frame.i], depth |-> frame.depth,
        owner |-> frame.owner] >>

\* the resolution is over: `weight` is what the outermost call returned
Over(res, weight) ==
    [res EXCEPT !.stack = <<>>, !.pending = <<>>, !.weight = weight,
                !.over = TRUE]

\* the generators run on from the loop test of the top frame to the next
\* yield of a fetch: a frame whose loop is over returns its weight to the
\* frame below, which takes it when it is not false and goes on with its own
\* loop
RECURSIVE settle(_)

settle(res) ==
    LET n == Len(res.stack)
        top == res.stack[n]
    IN  IF top.depth > DepthLimit(provider) THEN Over(res, Diverges)
        ELSE IF top.i <= Len(top.roles)
        THEN [res EXCEPT !.pending = issue(top),
                         !.log = @ \o issue(top)]
        ELSE IF n = 1 THEN Over(res, top.weight)
        ELSE LET below == res.stack[n - 1]
                 resumed == [below EXCEPT
                                !.weight = IF top.weight # False
                                           THEN top.weight ELSE @,
                                !.i = @ + 1]
             IN  settle([res EXCEPT
                           !.stack = Append(SubSeq(res.stack, 1, n - 2),
                                            resumed)])

Starting(permissions) ==
    [permissions |-> permissions, stack |-> <<>>, pending |-> <<>>,
     log |-> <<>>, weight |-> NotRun, over |-> FALSE, called |-> FALSE]

InitFetch ==
    /\ app = "lib"
    /\ options = NoOptions
    /\ user = ""
    /\ priority = NoPriority
    /\ provider \in Providers
    /\ installed = TRUE
    /\ userRoles \in TestUsers
    /\ allowedWeight = Null
    /\ status = "running"
    /\ last = NoRule
    /\ opening = NoQuery
    /\ rule = NoConstructor
    /\ accept = "text/html"
    /\ handled = <<>>
    /\ requests = NoRequests
    /\ resolution \in {Starting(q) : q \in Queries}
    /\ ctxProperties = NoProperties
    /\ instances = NoInstances

Inputs ==
    <<app, options, user, priority, provider, installed, userRoles,
      allowedWeight, status, last, opening, rule, accept, handled, requests,
      ctxProperties, instances>>

\* findMatchingRuleWeight(0, userRoles, provider, permissions) is called
call ==
    /\ ~resolution.called
    /\ resolution' =
          settle([resolution EXCEPT !.called = TRUE,
                                    !.stack = <<Frame(0, userRoles, "")>>])
    /\ UNCHANGED Inputs

\* the provider answers the fetch the top frame waits for: the frame looks
\* for a match, and recurses into role.inherited while its weight is false
fetchReturns ==
    /\ resolution.called /\ ~resolution.over
    /\ Len(resolution.pending) > 0
    /\ LET n == Len(resolution.stack)
           top == resolution.stack[n]
           name == resolution.pending[1].name
           answered == [resolution EXCEPT !.pending = Tail(@)]
       IN  IF ~Knows(provider, name) \/ Rejects(provider, name)
           THEN resolution' = Over(answered, Throws)
           ELSE
             LET role == provider[name]
                 matched == \E p \in role.permissions :
                                indexOf(resolution.permissions, p) >= 0
                 w1 == IF matched /\ (top.weight = False \/ top.weight > top.depth)
                       THEN top.depth ELSE top.weight
             IN  resolution' =
                   IF w1 = False
                   THEN settle([answered EXCEPT
                           !.stack = Append(@, Frame(top.depth + 1,
                                                     role.inherited, name))])
                   ELSE settle([answered EXCEPT
                           !.stack[n] = [top EXCEPT !.weight = w1,
                                                    !.i = @ + 1]])
    /\ UNCHANGED Inputs

NextFetch == call \/ fetchReturns

SpecFetch == InitFetch /\ [][NextFetch]_vars

----------------------------------------------------------------------------
(* Several middleware functions of lib/rbac are made, each with its        *)
(* provider, and requests come through one of them (SpecInstances)         *)

MaxInstances == 2

\* the provider of no middleware: it knows no role
NoProvider == <<>>

InitInstances ==
    /\ app = "lib"
    /\ options = NoOptions
    /\ user = ""
    /\ priority = NoPriority
    /\ provider = NoProvider
    /\ installed = FALSE
    /\ userRoles = <<>>
    /\ allowedWeight = Null
    /\ status = "none"
    /\ last = NoRule
    /\ opening = NoQuery
    /\ rule = NoConstructor
    /\ accept = "text/html"
    /\ handled = <<>>
    /\ requests = NoRequests
    /\ resolution = NoResolution
    /\ ctxProperties = NoProperties
    /\ instances = NoInstances

\* middleware(p) with a valid provider: `ctxProperties = {...}` assigns the
\* descriptors to an undeclared name (the function declares `ctxProperty`),
\* which in a module that is not in strict mode is a property of the global
\* object; the generator returned is kept with its provider
makeMiddleware(p) ==
    /\ Len(instances.made) < MaxInstances
    /\ status # "running"
    /\ ctxProperties' = [accessProvider |-> p, allowedWeight |-> Null,
                         defined |-> TRUE]
    /\ instances' = [instances EXCEPT !.made = Append(@, p)]
    /\ installed' = TRUE
    /\ UNCHANGED <<resolution, requests, accept, handled, rule, app, options,
                   user, priority, provider, userRoles, allowedWeight, status,
                   last, opening>>

\* function * rbac(next) of the k-th middleware made: a request enters and
\* `Object.defineProperties(this, ctxProperties)` gives its context what the
\* global holds at that time
rbacOf(k) ==
    /\ status # "running"
    /\ instances' = [instances EXCEPT !.through = k]
    /\ provider' = ctxProperties.accessProvider
    /\ allowedWeight' = ctxProperties.allowedWeight
    /\ \E u \in TestUsers : userRoles' = u
    /\ status' = "running"
    /\ last' = NoRule
    /\ opening' = NoQuery
    /\ UNCHANGED <<ctxProperties, resolution, requests, accept, handled, rule,
                   app, options, user, priority, installed>>

MakeMiddleware == \E p \in Providers : makeMiddleware(p)

Rbac == \E k \in 1..Len(instances.made) : rbacOf(k)

\* the request goes on through an allow rule and the handler of the app
Rules == instances.through > 0 /\ (Allow \/ handler)

NextInstances == MakeMiddleware \/ Rbac \/ Rules

SpecInstances == InitInstances /\ [][NextInstances]_vars

----------------------------------------------------------------------------
(* Properties of the rule chain of lib/rbac (specification Spec)           *)

\* the weight the query resolves to for the requester of the current request
Weight(q) == findMatchingRuleWeight(0, userRoles, provider, q)

IsWeight(w) == w >= 0

\* C1: with the rbac middleware in the pipe, deny(Q) restricts exactly when
\* Q resolves to a finite weight w and the allowed weight is unset or
\* w <= allowedWeight; it passes when Q is unsatisfied or w > allowedWeight.
C1_DenyRestrictsIff ==
    (last.op = "deny" /\ installed) =>
        LET w == Weight(last.deny)
        IN  /\ (IsWeight(w) /\ (last.before = Null \/ w <= last.before))
                => /\ last.decision = "restrict"
                   /\ status \in {"forbidden", "redirected"}
            /\ (w = False \/ (IsWeight(w) /\ last.before # Null /\ w > last.before))
                => /\ last.decision = "pass"
                   /\ status \in {"running", "handled"}
            /\ last.decision = "restrict"
                => (IsWeight(w) /\ (last.before = Null \/ w <= last.before))

C1_Witness ==
    /\ last.op = "deny" /\ installed
    /\ last.decision = "restrict"
    /\ last.before # Null
    /\ Weight(last.deny) < last.before

\* C2: allow(Q) restricts whenever Q is unsatisfied and no allowed weight is
\* recorded; the request never reaches the downstream handler.
C2_AllowRestrictsUnsatisfied ==
    (last.op = "allow" /\ installed /\ Weight(last.allow) = False
        /\ last.before = Null)
    => /\ last.decision = "restrict"
       /\ status \in {"forbidden", "redirected"}

C2_Witness ==
    /\ last.op = "allow" /\ installed
    /\ Weight(last.allow) = False /\ last.before = Null
    /\ status = "forbidden"

\* the weight check's deny is compared with by the statement of the claim:
\* the weight of its own allow query, +infinity when none is given
OwnAllowWeight ==
    IF last.allow = NoQuery THEN Infinity ELSE Weight(last.allow)

OwnDenyWeight ==
    IF last.deny = NoQuery THEN False ELSE Weight(last.deny)

GrantsByOwnWeights ==
    /\ OwnAllowWeight # False
    /\ (OwnDenyWeight = False \/ OwnDenyWeight > OwnAllowWeight)

\* koa-rbac: the same over the priorities of the RBAC-A instance
KoaOwnAllow == IF last.allow = NoQuery THEN Infinity ELSE check(last.allow)

KoaOwnDeny == IF last.deny = NoQuery THEN NaN ELSE check(last.deny)

KoaGrantsByOwnWeights ==
    /\ ~isNaN(KoaOwnAllow)
    /\ (isNaN(KoaOwnDeny) \/ KoaOwnDeny > KoaOwnAllow)

OneQueryGiven == last.allow # NoQuery \/ last.deny # NoQuery

\* lib/rbac: the allowed weight of the request after the allow part of check
AccumulatedWeight ==
    IF last.allow # NoQuery /\ IsWeight(Weight(last.allow))
    THEN (IF last.before = Null THEN Weight(last.allow)
          ELSE Min(last.before, Weight(last.allow)))
    ELSE last.before

\* C3 as stated: check grants exactly when its allow weight is satisfied
\* (+infinity when no allow query is given) and its deny query is
\* unsatisfied/absent or of a weight strictly greater than the allow weight.
C3_CheckGrantsIff_AsStated ==
    /\ (last.op = "check" /\ installed /\ last.decision \in {"pass", "restrict"})
        => (last.decision = "pass" <=> GrantsByOwnWeights)
    /\ (last.op = "checkMiddleware" /\ installed /\ OneQueryGiven
            /\ last.decision \in {"pass", "restrict"})
        => (last.decision = "pass" <=> KoaGrantsByOwnWeights)

\* C3 (amended): the statement holds for koa-rbac and for lib/rbac on a
\* request without a recorded allowed weight; in lib/rbac after an earlier
\* allow the allow part is also satisfied by the recorded weight, and the
\* deny weight is compared with the accumulated allowed weight.
C3_CheckGrantsIff ==
    /\ (last.op = "check" /\ installed /\ last.decision \in {"pass", "restrict"})
        => /\ last.before = Null
                => (last.decision = "pass" <=> GrantsByOwnWeights)
           /\ last.decision = "pass" <=>
                /\ \/ last.allow = NoQuery
                   \/ IsWeight(Weight(last.allow))
                   \/ last.before # Null
                /\ \/ OwnDenyWeight = False
                   \/ (AccumulatedWeight # Null
                        /\ OwnDenyWeight > AccumulatedWeight)
    /\ (last.op = "checkMiddleware" /\ installed /\ OneQueryGiven
            /\ last.decision \in {"pass", "restrict"})
        => (last.decision = "pass" <=> KoaGrantsByOwnWeights)

C3_Witness ==
    /\ last.op = "check" /\ installed
    /\ last.before # Null
    /\ last.allow # NoQuery /\ last.deny # NoQuery
    /\ IsWeight(Weight(last.allow)) /\ IsWeight(Weight(last.deny))
    /\ Weight(last.deny) <= Weight(last.allow)
    /\ Weight(last.deny) > last.before
    /\ last.decision = "pass"

\* C4: when allow(Q) resolves Q at a finite weight w it passes, and the
\* allowed weight afterwards is w if it was unset and min(previous, w)
\* otherwise.
C4_AllowRecordsMinimum ==
    (last.op = "allow" /\ installed /\ IsWeight(Weight(last.allow)))
    => /\ last.decision = "pass"
       /\ status \in {"running", "handled"}
       /\ allowedWeight = IF last.before = Null THEN Weight(last.allow)
                          ELSE Min(last.before, Weight(last.allow))

C4_Witness ==
    /\ last.op = "allow" /\ installed
    /\ last.before # Null
    /\ IsWeight(Weight(last.allow))
    /\ Weight(last.allow) < last.before
    /\ allowedWeight = Weight(last.allow)

\* C5: when allow(Q) finds Q unsatisfied but an allowed weight was recorded
\* earlier in the request, it passes and leaves the allowed weight unchanged.
C5_AllowKeepsEarlierGrant ==
    (last.op = "allow" /\ installed /\ Weight(last.allow) = False
        /\ last.before # Null)
    => /\ last.decision = "pass"
       /\ status \in {"running", "handled"}
       /\ allowedWeight = last.before

C5_Witness ==
    /\ last.op = "allow" /\ installed
    /\ Weight(last.allow) = False /\ last.before # Null
    /\ last.decision = "pass"
    /\ status = "handled"

\* C6: on a fresh request, allow(Q) with Q satisfiable followed by deny(Q)
\* ends in a restriction at the deny.
C6_AllowThenDenySameQuery ==
    (last.op = "deny" /\ installed /\ ~last.first
        /\ opening # NoQuery /\ opening = last.deny)
    => /\ last.decision = "restrict"
       /\ status \in {"forbidden", "redirected"}

C6_Witness ==
    /\ last.op = "deny" /\ installed /\ ~last.first
    /\ opening # NoQuery /\ opening = last.deny
    /\ last.before = Weight(last.deny)
    /\ status = "forbidden"

----------------------------------------------------------------------------
(* Properties of the resolution (specification SpecResolve)                *)

Range(f) == {f[k] : k \in DOMAIN f}

\* role names reachable from the names in S through `inherited`
RECURSIVE Closure(_, _)
Closure(prov, S) ==
    LET T == S \cup UNION {Range(prov[r].inherited) : r \in S \cap DOMAIN prov}
    IN  IF T = S THEN S ELSE Closure(prov, T)

Reachable == Closure(provider, Range(userRoles))

AllKnown == Reachable \subseteq DOMAIN provider

\* some reachable role inherits, directly or not, from itself
Cyclic ==
    \E r \in Reachable \cap DOMAIN provider :
        r \in Closure(provider, Range(provider[r].inherited))

Holds(r, q) ==
    /\ r \in DOMAIN provider
    /\ \E p \in provider[r].permissions : p \in Range(q)

\* the least number of inheritance steps from a requester role to a role
\* holding a permission of q; False if there is none
RECURSIVE MinDepthFrom(_, _, _, _)
MinDepthFrom(level, seen, d, q) ==
    IF level = {} THEN False
    ELSE IF \E r \in level : Holds(r, q) THEN d
    ELSE MinDepthFrom(
             UNION {Range(provider[r].inherited) : r \in level \cap DOMAIN provider}
                 \ (seen \cup level),
             seen \cup level, d + 1, q)

MinDepth(q) == MinDepthFrom(Range(userRoles), {}, 0, q)

\* C8: over a cyclic inheritance graph the resolution terminates, and the
\* result is unsatisfied when no reachable role holds a permission of the
\* query.
C8_CyclicResolutionTerminates ==
    (last.op = "resolve" /\ AllKnown /\ Cyclic)
    => /\ last.allowW # Diverges
       /\ (\A r \in Reachable : ~Holds(r, last.allow)) => last.allowW = False

\* C9: over an acyclic graph the resolution returns the minimum inheritance
\* depth at which the query is satisfied, over all requester roles and all
\* paths, and unsatisfied only if no reachable role satisfies it.
C9_ResolveReturnsMinimumDepth ==
    (last.op = "resolve" /\ AllKnown /\ ~Cyclic)
    => last.allowW = MinDepth(last.allow)

\* the k-th role of the chain headed by the single requester role; 0 when
\* the chain breaks before (no longer exactly one known parent)
RECURSIVE ChainRole(_)
ChainRole(k) ==
    IF k = 0
    THEN (IF Len(userRoles) = 1 /\ userRoles[1] \in DOMAIN provider
          THEN userRoles[1] ELSE 0)
    ELSE LET r == ChainRole(k - 1)
         IN  IF r = 0 THEN 0
             ELSE IF Len(provider[r].inherited) = 1
                     /\ provider[r].inherited[1] \in DOMAIN provider
             THEN provider[r].inherited[1] ELSE 0

\* R0 .. Rn is a chain, each inheriting only the next, and Rn is the first
\* to hold a permission of q
ChainSatisfiedAt(n, q) ==
    /\ ChainRole(n) # 0
    /\ Holds(ChainRole(n), q)
    /\ \A k \in 0..(n - 1) : ~Holds(ChainRole(k), q)

\* C10: for a single requester role heading a chain R0 .. Rn, a query
\* satisfied only by Rn resolves to weight n (0 for the assigned role).
C10_ChainResolvesToLength ==
    last.op = "resolve" =>
        \A n \in 0..NumRoles :
            ChainSatisfiedAt(n, last.allow) => last.allowW = n

C10_Witness ==
    /\ last.op = "resolve"
    /\ ChainSatisfiedAt(2, last.allow)
    /\ last.allowW = 2

----------------------------------------------------------------------------
(* Properties of rule construction (specification SpecRule)                *)

\* a string split on the two-character AND-separator "&&"
RECURSIVE SplitAnd(_)
SplitAnd(s) ==
    IF \E k \in 1..(Len(s) - 1) : s[k] = "&" /\ s[k + 1] = "&"
    THEN LET k == CHOOSE i \in 1..(Len(s) - 1) :
                      /\ s[i] = "&" /\ s[i + 1] = "&"
                      /\ \A j \in 1..(i - 1) : ~(s[j] = "&" /\ s[j + 1] = "&")
         IN  <<SubSeq(s, 1, k - 1)>> \o SplitAnd(SubSeq(s, k + 2, Len(s)))
    ELSE <<s>>

\* the AND-groups of a permission string: split on the comma, each group
\* split on "&&", tokens trimmed, empty tokens and empty groups dropped
AndGroups(s) ==
    {g \in {{trim(t) : t \in Range(SplitAnd(part))} \ {<<>>} :
                part \in Range(split(s, PERMISSION_SEP))} : g # {}}

\* the permissions of all the roles reached from the requester's roles
Accumulated == UNION {provider[r].permissions : r \in Reachable \cap DOMAIN provider}

Covered(s) == \E g \in AndGroups(s) : g \subseteq Accumulated

\* C11: a permission query is satisfied exactly when one of its AND-groups
\* has all its tokens among the permissions accumulated from the reached
\* roles; holding only some tokens of every AND-group is unsatisfied.
C11_SatisfiedIffAndGroupCovered ==
    (rule.ctor = "allow" /\ last.op = "allow"
        /\ AndGroups(rule.given.allow.chars) # {})
    => (IsWeight(last.allowW) <=> Covered(rule.given.allow.chars))

----------------------------------------------------------------------------
(* Failures of the resolution (specification SpecResolve)                  *)

\* C12: the resolution never fails on a role name the provider does not
\* know: such a role contributes nothing and the remaining roles are still
\* evaluated.
C12_ResolutionNeverFails ==
    (last.op = "resolve" /\ ~AllKnown /\ ~Cyclic)
    => /\ last.allowW # Throws
       /\ last.allowW = False \/ IsWeight(last.allowW)

----------------------------------------------------------------------------
(* Further properties of the rule chains (specification Spec)              *)

\* C13: for a requester without roles, on a fresh request, allow restricts,
\* deny passes, check with only a deny query passes and check with only an
\* allow query restricts, whatever the query.
C13_NoRolesOnFreshRequest ==
    (app = "lib" /\ installed /\ userRoles = <<>> /\ last.first)
    => /\ last.op = "allow" => /\ last.decision = "restrict"
                               /\ status \in {"forbidden", "redirected"}
       /\ last.op = "deny" => /\ last.decision = "pass"
                              /\ status \in {"running", "handled"}
       /\ (last.op = "check" /\ last.allow = NoQuery)
            => /\ last.decision = "pass"
               /\ status \in {"running", "handled"}
       /\ (last.op = "check" /\ last.deny = NoQuery)
            => /\ last.decision = "restrict"
               /\ status \in {"forbidden", "redirected"}

C13_Witness ==
    /\ app = "lib" /\ installed /\ userRoles = <<>> /\ last.first
    /\ last.op = "check" /\ last.deny = NoQuery
    /\ last.allow = <<"read", "update">>
    /\ status = "redirected"

\* C14: in koa-rbac, when the identity function yields no identity, every
\* allow and every check restricts and every deny passes, whatever the
\* permissions.
C14_AbsentIdentityRestricts ==
    (app = "koa" /\ installed /\ user = "")
    => /\ last.op \in {"allowMiddleware", "checkMiddleware"}
            => /\ last.decision = "restrict"
               /\ status \notin {"running", "handled"}
       /\ last.op = "denyMiddleware"
            => /\ last.decision = "pass"
               /\ status \in {"running", "handled"}

\* the resolution of a query of the last rule failed
LibFetchFailed ==
    /\ last.op \in {"allow", "deny", "check"}
    /\ (last.allowW = Throws \/ last.denyW = Throws)

KoaFetchFailed ==
    /\ last.op \in {"allowMiddleware", "denyMiddleware", "checkMiddleware"}
    /\ (last.allowW = Rejected \/ last.denyW = Rejected)

C16_AllowedWeightOnlyDecreases ==
    /\ []((app = "lib" /\ status = "running" /\ last.op = "none")
            => allowedWeight = Null)
    /\ [][(app = "lib" /\ status = "running" /\ allowedWeight # Null)
            => (allowedWeight' # Null /\ allowedWeight' <= allowedWeight)]_vars

C16_Witness ==
    /\ app = "lib" /\ installed
    /\ last.op \in {"allow", "check"}
    /\ last.before # Null
    /\ allowedWeight # Null /\ allowedWeight < last.before

\* the decision of check(allowP, denyP) for the requester on a request on
\* which no rule ran before
FreshCtx == [Ctx EXCEPT !.allowedWeight = Null]

FreshCheck(allowP, denyP) ==
    LET a == IF allowP = NoQuery
             THEN [ret |-> "true", aw |-> Null, w |-> NotRun]
             ELSE isAllowed(FreshCtx, allowP)
        d == IF denyP = NoQuery \/ a.ret # "true"
             THEN [ret |-> "false", aw |-> a.aw, w |-> NotRun]
             ELSE isDenied([FreshCtx EXCEPT !.allowedWeight = a.aw], denyP)
    IN  CASE a.ret \in {"diverges", "throws"} -> Unfinished(a.ret)
          [] a.ret = "false"                  -> "restrict"
          [] d.ret \in {"diverges", "throws"} -> Unfinished(d.ret)
          [] d.ret = "true"                   -> "restrict"
          [] OTHER                            -> "pass"

\* koa-rbac: the decision of check from the two priorities alone
KoaFreshCheck(allowP, denyP) ==
    LET a == IF allowP # NoQuery THEN check(allowP) ELSE Infinity
        d == IF a = Rejected THEN NotRun
             ELSE IF denyP # NoQuery THEN check(denyP) ELSE Infinity
    IN  IF a = Rejected \/ d = Rejected THEN "error"
        ELSE IF isNaN(a) \/ (~isNaN(d) /\ d <= a) THEN "restrict"
        ELSE "pass"

\* C17 as stated: the outcome of check depends only on the requester's
\* roles and on its own two queries: it is the outcome check has on a fresh
\* request, whatever rules ran earlier in the chain.
C17_CheckIgnoresEarlierRules_AsStated ==
    /\ (last.op = "check" /\ installed)
        => last.decision = FreshCheck(last.allow, last.deny)
    /\ (last.op = "checkMiddleware" /\ installed)
        => last.decision = KoaFreshCheck(last.allow, last.deny)

\* C17 (amended): that holds in koa-rbac, and in lib/rbac as long as no
\* allowed weight was recorded by an earlier allow or check of the chain.
C17_CheckIgnoresEarlierRules ==
    /\ (last.op = "check" /\ installed /\ last.before = Null)
        => last.decision = FreshCheck(last.allow, last.deny)
    /\ (last.op = "checkMiddleware" /\ installed)
        => last.decision = KoaFreshCheck(last.allow, last.deny)

C17_Witness ==
    /\ last.op = "check" /\ installed /\ ~last.first
    /\ last.before = Null
    /\ last.allow # NoQuery /\ last.deny # NoQuery
    /\ IsWeight(last.allowW) /\ IsWeight(last.denyW)
    /\ last.decision = "pass"

\* what allow(Q) does on the request as it was before the last rule
AllowBefore(q) == isAllowed([Ctx EXCEPT !.allowedWeight = last.before], q)

AllowDecision(a) ==
    CASE a.ret = "true"  -> "pass"
      [] a.ret = "false" -> "restrict"
      [] OTHER           -> Unfinished(a.ret)

\* C18: the allow part of check follows the rule of allow: check({allow: Q})
\* takes the decision allow(Q) takes at that step and leaves the allowed
\* weight allow(Q) leaves, so that every later step decides the same; on a
\* fresh request check({allow: Q}) followed by deny(Q) restricts.
C18_CheckAllowPartIsAllow ==
    /\ []((last.op = "check" /\ last.deny = NoQuery)
            => /\ last.decision = AllowDecision(AllowBefore(last.allow))
               /\ allowedWeight = AllowBefore(last.allow).aw
               /\ last.allowW = AllowBefore(last.allow).w
               /\ last.decision = "pass" => status \in {"running", "handled"}
               /\ last.decision = "restrict"
                    => status = Restricted(last.redirectUrl))
    /\ [][(/\ last.op = "check" /\ last.first /\ installed
           /\ last.deny = NoQuery /\ last.decision = "pass"
           /\ last'.op = "deny" /\ last'.deny = last.allow)
            => last'.decision = "restrict"]_vars

C18_Witness ==
    /\ last.op = "check" /\ installed
    /\ last.deny = NoQuery
    /\ last.before # Null
    /\ IsWeight(last.allowW) /\ last.allowW < last.before
    /\ allowedWeight = last.allowW
    /\ status = "handled"

\* the outcome and the allowed weight of the chain allow(q1); allow(q2) on a
\* fresh request of the requester
TwoAllows(q1, q2) ==
    LET a1 == isAllowed(FreshCtx, q1)
    IN  IF a1.ret # "true"
        THEN [outcome |-> AllowDecision(a1), aw |-> a1.aw]
        ELSE LET a2 == isAllowed([FreshCtx EXCEPT !.allowedWeight = a1.aw], q2)
             IN  [outcome |-> AllowDecision(a2), aw |-> a2.aw]

\* the chain that ran is allow(opening); allow(last.allow)
TwoAllowsRan ==
    /\ last.op = "allow" /\ installed /\ ~last.first
    /\ opening # NoQuery

\* C19 as stated: two allow rules commute: on a fresh request the chains
\* allow(Q1); allow(Q2) and allow(Q2); allow(Q1) have the same pass/restrict
\* outcome and leave the same allowed weight.
C19_AllowsCommute_AsStated ==
    /\ TwoAllowsRan
        => TwoAllows(last.allow, opening) =
               [outcome |-> last.decision, aw |-> allowedWeight]
    /\ (last.op = "allow" /\ installed /\ last.first
            /\ last.decision = "restrict")
        => \A q2 \in Queries :
               TwoAllows(q2, last.allow) =
                   [outcome |-> "restrict", aw |-> allowedWeight]

\* C19 (amended): the two chains agree when both queries are satisfied (both
\* pass, the allowed weight is the minimum of the two weights) and when both
\* are unsatisfied (both restrict at the first rule).
C19_AllowsCommute ==
    /\ (TwoAllowsRan /\ IsWeight(Weight(last.allow)))
        => /\ TwoAllows(last.allow, opening) =
                  [outcome |-> last.decision, aw |-> allowedWeight]
           /\ last.decision = "pass"
           /\ allowedWeight = Min(Weight(opening), Weight(last.allow))
    /\ (last.op = "allow" /\ installed /\ last.first
            /\ last.decision = "restrict")
        => \A q2 \in Queries :
               Weight(q2) = False
                   => TwoAllows(q2, last.allow) =
                          [outcome |-> "restrict", aw |-> allowedWeight]

C19_Witness ==
    /\ TwoAllowsRan
    /\ IsWeight(Weight(last.allow))
    /\ Weight(opening) > Weight(last.allow)
    /\ last.decision = "pass"
    /\ allowedWeight = Weight(last.allow)

----------------------------------------------------------------------------
(* Properties of the check constructors (specification SpecRule)           *)

Constructed == rule.stage \in {"built", "failed"}

\* check was given a permissions object without an allow and without a
\* deny list (lib/rbac: the key absent or its value falsy)
LibNeitherGiven ==
    /\ rule.ctor = "check" /\ rule.given.object
    /\ ~Truthy(rule.given.allow) /\ ~Truthy(rule.given.deny)

\* koa-rbac: no permissions object, or one without the two keys
KoaNeitherGiven ==
    /\ rule.ctor = "koaCheck"
    /\ \/ ~rule.given.object
       \/ (rule.given.allow = Undefined /\ rule.given.deny = Undefined)

\* C20 as stated: constructing a check rule with neither an allow nor a deny
\* query fails at construction with the error 'Missing permissions', and no
\* middleware is returned.
C20_CheckNeedsAQuery_AsStated ==
    (Constructed /\ (LibNeitherGiven \/ KoaNeitherGiven))
    => /\ rule.stage = "failed"
       /\ rule.error = "Missing permissions"
       /\ last.op = "none"

\* C20 (amended): that holds for check of lib/rbac; check of koa-rbac looks
\* at its permissions only when a request comes and always returns a
\* middleware.
C20_CheckNeedsAQuery ==
    /\ (Constructed /\ LibNeitherGiven)
        => /\ rule.stage = "failed"
           /\ rule.error = "Missing permissions"
           /\ last.op = "none"
    /\ (Constructed /\ rule.ctor = "check" /\ ~rule.given.object)
        => /\ rule.stage = "failed"
           /\ rule.error = "Invalid permissions"
           /\ last.op = "none"
    /\ (Constructed /\ rule.ctor = "koaCheck")
        => /\ rule.stage = "built"
           /\ rule.error = ""

C20_Witness ==
    /\ LibNeitherGiven
    /\ rule.given.allow = Str(<<>>) /\ rule.given.deny = Undefined
    /\ rule.stage = "failed"
    /\ rule.error = "Missing permissions"

----------------------------------------------------------------------------
(* Properties of the permission lists of allow and deny (SpecRule)         *)

AllowOrDeny == rule.ctor \in {"allow", "deny"}

\* an empty permission specification: an empty string, an empty list, or a
\* value that is neither a string nor a list
EmptySpec(v) ==
    \/ v.type \in {"undefined", "other"}
    \/ v = Str(<<>>)
    \/ v = Arr(<<>>)

\* C21: constructing an allow or deny rule from an empty permission
\* specification fails at construction with 'Invalid permissions', and no
\* request is ever served by such a rule.
C21_EmptySpecificationFails ==
    (AllowOrDeny /\ Constructed /\ EmptySpec(rule.given.allow))
    => /\ rule.stage = "failed"
       /\ rule.error = "Invalid permissions"
       /\ last.op = "none"

C21_Witness ==
    /\ rule.ctor = "deny"
    /\ rule.given.allow = Arr(<<>>)
    /\ rule.stage = "failed"
    /\ rule.error = "Invalid permissions"

\* the list the constructor prepared
PreparedList == IF rule.ctor = "allow" THEN rule.allow ELSE rule.deny

\* every token the specification holds is empty once trimmed
AllBlank(v) ==
    \A k \in 1..Len(Pieces(v)) :
        Pieces(v)[k].type = "string" => trim(Pieces(v)[k].chars) = <<>>

\* C22: every token of an accepted permission specification is a trimmed,
\* non-empty string, and a specification whose tokens are all empty after
\* trimming is rejected.
C22_TokensTrimmedNonEmpty ==
    (AllowOrDeny /\ Constructed)
    => /\ rule.stage = "built"
            => \A k \in 1..Len(PreparedList) :
                   /\ PreparedList[k] # <<>>
                   /\ trim(PreparedList[k]) = PreparedList[k]
       /\ (rule.given.allow.type \in {"string", "array"}
            /\ AllBlank(rule.given.allow))
            => rule.stage = "failed"

IsToken(t) == t # <<>>

IsGroup(g) == g # <<>>

\* the AND-group of one comma-separated part: split on "&&", trimmed, empty
\* tokens dropped
GroupOf(part) ==
    LET toks == SplitAnd(part)
    IN  SelectSeq([k \in 1..Len(toks) |-> trim(toks[k])], IsToken)

\* the normalized query of a specification: the groups in order
ExpectedGroups(v) ==
    IF v.type = "string"
    THEN LET parts == split(v.chars, PERMISSION_SEP)
         IN  SelectSeq([k \in 1..Len(parts) |-> GroupOf(parts[k])], IsGroup)
    ELSE LET strs == SelectSeq(v.items, NonEmpty)
         IN  SelectSeq([k \in 1..Len(strs) |->
                           SelectSeq(<<trim(strs[k].chars)>>, IsToken)],
                       IsGroup)

\* the prepared list read as single-token groups
AsGroups(list) == [k \in 1..Len(list) |-> <<list[k]>>]

\* no piece of the specification is blank
NoBlankPiece(v) ==
    \A k \in 1..Len(Pieces(v)) :
        NonEmpty(Pieces(v)[k]) => trim(Pieces(v)[k].chars) # <<>>

\* C23: a string is split on the comma into groups and each group on "&&"
\* into tokens, in order, and a list maps each string entry to a
\* single-token group.
C23_NormalizedQuery ==
    (AllowOrDeny /\ rule.stage = "built" /\ NoBlankPiece(rule.given.allow))
    => AsGroups(PreparedList) = ExpectedGroups(rule.given.allow)

----------------------------------------------------------------------------
(* Properties of the response of a restriction                             *)

AcceptsJson == accept = "application/json"

\* C26: a restriction redirects to the configured target only if a target
\* was configured and the request does not accept JSON; with no target, or
\* for a request that accepts JSON, the response is 403 'Forbidden'.
C26_RedirectOnlyWithoutJson ==
    (last.decision = "restrict" /\ ~options.restrictionHandler)
    => IF last.redirectUrl # "" /\ ~AcceptsJson
       THEN status = "redirected"
       ELSE status = "forbidden"

\* the permissions argument the last koa-rbac rule hands to _restrict
RulePermissions ==
    CASE last.op = "allowMiddleware" -> last.allow
      [] last.op = "denyMiddleware"  -> last.deny
      [] OTHER -> [allow |-> last.allow, deny |-> last.deny]

\* C27: with a restrictionHandler configured, a restriction by allow, deny
\* or check calls the handler exactly once, with the rule's permissions and
\* the proposed redirect target, and the middleware sets neither the 403 nor
\* the redirect; the handler is called on no other occasion.
C27_RestrictionHandlerTakesOver ==
    (app = "koa" /\ installed /\ options.restrictionHandler)
    => /\ last.decision = "restrict"
            => /\ status = "handled by restrictionHandler"
               /\ handled = <<HandlerCall(RulePermissions, last.redirectUrl)>>
       /\ last.decision # "restrict" => handled = <<>>
       /\ status \notin {"forbidden", "redirected"}

C27_Witness ==
    /\ app = "koa" /\ installed /\ options.restrictionHandler
    /\ last.op = "checkMiddleware"
    /\ last.decision = "restrict"
    /\ last.redirectUrl = "/foo"
    /\ last.deny # NoQuery
    /\ Len(handled) = 1
    /\ status = "handled by restrictionHandler"

----------------------------------------------------------------------------
(* Properties of the rules of an app without the rbac middleware           *)

IsAllowRule == last.op \in {"allow", "allowMiddleware"}

IsDenyRule == last.op \in {"deny", "denyMiddleware"}

\* the rule yielded to the rest of the pipe, which may have answered since
PassedOn == {"running", "handled"}

\* the original statement of C28: without the rbac middleware allow passes
\* through and deny answers 403, whatever the identity and the permission
C28_NoMiddleware_AsStated ==
    ~installed
    => /\ IsAllowRule => (last.decision = "pass" /\ status \in PassedOn)
       /\ IsDenyRule => (last.decision = "restrict" /\ status = "forbidden")

\* C28: without the rbac middleware allow passes through and deny never
\* does, whatever the identity and the permission: deny of koa-rbac answers
\* 403, and deny of lib/rbac answers 403 when it has no redirect target and
\* redirects to its target otherwise; no weight is resolved or recorded.
C28_NoMiddleware ==
    ~installed
    => /\ IsAllowRule => (last.decision = "pass" /\ status \in PassedOn)
       /\ IsDenyRule
            => /\ last.decision = "restrict"
               /\ status = IF last.op = "deny" /\ last.redirectUrl # ""
                           THEN "redirected" ELSE "forbidden"
       /\ (IsAllowRule \/ IsDenyRule)
            => /\ last.allowW = NotRun /\ last.denyW = NotRun
               /\ allowedWeight = Null

C28_Witness ==
    /\ ~installed
    /\ last.op = "deny"
    /\ last.redirectUrl = "/foo"
    /\ userRoles # <<>>
    /\ status = "redirected"

----------------------------------------------------------------------------
(* Properties of the provider calls of one request                         *)

\* the role names the last rule of lib/rbac fetched from the provider
LastFetches ==
    (IF last.allowW # NotRun
     THEN fetched(0, userRoles, provider, last.allow) ELSE <<>>)
    \o (IF last.denyW # NotRun
        THEN fetched(0, userRoles, provider, last.deny) ELSE <<>>)

NoDuplicates(s) == \A i \in 1..Len(s), j \in 1..Len(s) : i < j => s[i] # s[j]

\* C29: within one request the provider's getRolePermissions is invoked at
\* most once per role name; here for the fetches of a single rule.
C29_RoleFetchedAtMostOnce ==
    (app = "lib" /\ installed /\ last.op \in {"allow", "deny", "check"})
    => NoDuplicates(LastFetches)

----------------------------------------------------------------------------
(* Properties of the registration of the middleware (SpecSetup)            *)

ValidProvider(p) == p.object /\ p.getRolePermissions /\ p.getUserRoles

\* C24: registering the lib/rbac middleware with a provider that is not an
\* object, or that lacks a callable getRolePermissions or a callable
\* getUserRoles, fails at registration with InvalidProviderException; no
\* middleware is returned, so that none is installed and no request served.
C24_InvalidProviderRefused ==
    (rule.ctor = "middleware" /\ rule.stage # "given"
        /\ ~ValidProvider(rule.given))
    => /\ rule.stage = "failed"
       /\ rule.exception = "InvalidProviderException"
       /\ ~installed
       /\ status = "none"

C24_Witness ==
    /\ rule.ctor = "middleware"
    /\ rule.given = [object |-> TRUE, getRolePermissions |-> TRUE,
                     getUserRoles |-> FALSE]
    /\ rule.stage = "failed"
    /\ rule.error = "Missing function getUserRoles in provider"

InvalidOption(o) ==
    "invalid" \in {o.rbac, o.identity, o.restrictionHandler}

\* C25: middleware(options) of koa-rbac throws InvalidOptionException when
\* options carries an invalid rbac, identity or restrictionHandler key, and
\* with no options or valid ones it returns a middleware that works with the
\* supplied rbac and identity values.
C25_InvalidOptionRefused ==
    (rule.ctor = "koaMiddleware" /\ rule.stage # "given")
    => IF InvalidOption(rule.given)
       THEN /\ rule.stage = "failed"
            /\ rule.exception = "InvalidOptionException"
            /\ ~installed
            /\ status = "none"
       ELSE /\ rule.stage = "built"
            /\ installed
            /\ options.rbac = (rule.given.rbac = "valid")
            /\ options.identity = "supplied" <=> rule.given.identity = "valid"
            /\ options.identity = "defaultIdentity"
                   <=> rule.given.identity = "absent"

C25_Witness ==
    /\ rule.ctor = "koaMiddleware"
    /\ rule.given = [present |-> TRUE, rbac |-> "valid", identity |-> "valid",
                     restrictionHandler |-> "invalid"]
    /\ rule.stage = "failed"
    /\ rule.error = "Invalid restriction handler"

----------------------------------------------------------------------------
(* Properties of requests served together (SpecConcurrent)                 *)

\* a request with the given roles alone in the pipe, after its first n
\* rules: its _allowedWeight, its decisions and whether it is still going
RECURSIVE AloneRun(_, _, _)

AloneRun(roles, pipe, n) ==
    IF n = 0 THEN [aw |-> Null, decisions |-> <<>>, going |-> TRUE]
    ELSE LET before == AloneRun(roles, pipe, n - 1)
             ctx == [installed |-> TRUE, provider |-> provider,
                     userRoles |-> roles, allowedWeight |-> before.aw]
             out == runRule(ctx, pipe[n])
         IN  IF ~before.going THEN before
             ELSE [aw |-> out.aw,
                   decisions |-> Append(before.decisions, out.decision),
                   going |-> out.decision = "pass"]

\* request r is between the isAllowed and the isDenied of a check rule
MidCheck(r) ==
    LET q == requests.run[r]
    IN  /\ q.status = "running" /\ q.at # "idle" /\ q.part = "deny"
        /\ requests.pipe[q.pc].allow # NoQuery

\* what request r alone would have in _allowedWeight where it is now
AloneWeight(r) ==
    LET q == requests.run[r]
        done == AloneRun(q.userRoles, requests.pipe, Len(q.decisions))
    IN  IF MidCheck(r)
        THEN isAllowed([installed |-> TRUE, provider |-> provider,
                        userRoles |-> q.userRoles, allowedWeight |-> done.aw],
                       requests.pipe[q.pc].allow).aw
        ELSE done.aw

\* C30: however the steps of two requests interleave at the suspension
\* points, each request's allowed weight and each of its decisions are those
\* of the request running alone.
C30_RequestsDoNotInterfere ==
    \A r \in Requests :
        LET q == requests.run[r]
            done == AloneRun(q.userRoles, requests.pipe, Len(q.decisions))
        IN  q.status # "new"
            => /\ q.decisions = done.decisions
               /\ requests.weight[ctxOf(r)] = AloneWeight(r)
               /\ Len(q.decisions) = q.pc - 1 + (IF q.status \in {"restricted", "error"} THEN 1 ELSE 0)

\* both requests are suspended in the resolution of their second rule, the
\* first far from done, with different allowed weights
C30_Witness ==
    /\ requests.run[1].at = "fetch" /\ requests.run[1].pc = 2
    /\ requests.run[2].at = "fetch" /\ requests.run[2].pc = 2
    /\ requests.run[1].k = 0 /\ requests.run[2].k > 0
    /\ requests.weight[1] # Null /\ requests.weight[2] # Null
    /\ requests.weight[1] # requests.weight[2]

----------------------------------------------------------------------------
(* Properties of koa-rbac without an RBAC instance, and of its check rule  *)
(* without permissions                                                     *)

\* what _restrict leaves for the last rule
RestrictResponse ==
    IF options.restrictionHandler THEN "handled by restrictionHandler"
    ELSE IF last.redirectUrl # "" THEN "redirected"
    ELSE "forbidden"

NoInstanceAllow ==
    /\ app = "koa" /\ installed /\ ~options.rbac
    /\ last.op = "allowMiddleware"

\* the original statement of C31: without an RBAC instance ctx.rbac.check
\* gives NaN and every allow answers 403
C31_NoInstanceAllowRestricts_AsStated ==
    NoInstanceAllow
    => /\ last.allowW = NaN
       /\ last.decision = "restrict"
       /\ status = "forbidden"

\* C31: with the koa-rbac middleware installed without an RBAC instance,
\* ctx.rbac.check gives NaN for every permission and identity and every
\* allow restricts: with 403 when the rule has no redirect target and no
\* restriction handler is configured, through the handler or the redirect
\* otherwise.
C31_NoInstanceAllowRestricts ==
    NoInstanceAllow
    => /\ last.allowW = NaN
       /\ last.decision = "restrict"
       /\ status = RestrictResponse
       /\ (~options.restrictionHandler /\ last.redirectUrl = "")
              => status = "forbidden"

C31_Witness ==
    /\ NoInstanceAllow
    /\ user = "homer"
    /\ priority[last.allow] = 1
    /\ last.redirectUrl = ""
    /\ ~options.restrictionHandler
    /\ status = "forbidden"

NoPermissionsCheck ==
    /\ app = "koa"
    /\ last.op = "checkMiddleware"
    /\ last.allow = NoQuery /\ last.deny = NoQuery

\* the original statement of C32: a koa-rbac check rule without permissions
\* answers 403 with the rbac middleware and passes without it
C32_CheckWithoutPermissions_AsStated ==
    NoPermissionsCheck
    => IF installed
       THEN last.decision = "restrict" /\ status = "forbidden"
       ELSE last.decision = "pass" /\ status \in PassedOn

\* C32: a koa-rbac check rule built with neither an allow nor a deny key
\* restricts every request when the rbac middleware is installed (with 403
\* when the rule has no redirect target and no restriction handler is
\* configured, through the handler or the redirect otherwise) and passes
\* every request through when no rbac middleware is installed.
C32_CheckWithoutPermissions ==
    NoPermissionsCheck
    => IF installed
       THEN /\ last.decision = "restrict"
            /\ last.allowW = Infinity /\ last.denyW = Infinity
            /\ status = RestrictResponse
            /\ (~options.restrictionHandler /\ last.redirectUrl = "")
                   => status = "forbidden"
       ELSE last.decision = "pass" /\ status \in PassedOn

C32_Witness ==
    /\ NoPermissionsCheck
    /\ installed /\ options.rbac /\ user = "homer"
    /\ last.redirectUrl = ""
    /\ ~options.restrictionHandler
    /\ status = "forbidden"

----------------------------------------------------------------------------
(* Properties of the order of the fetches of one resolution (SpecFetch)    *)

LogNames == [k \in 1..Len(resolution.log) |-> resolution.log[k].name]

IsPrefix(s, t) == Len(s) <= Len(t) /\ s = SubSeq(t, 1, Len(s))

AtRoot(entry) == entry.depth = 0

\* C33: the fetches of one resolution are sequential and depth-first in
\* input order: at most one fetch is outstanding, and it is the last one
\* asked for; the parents of a role are fetched after the fetch of that role
\* was answered, one level deeper than the role; the user's roles are
\* fetched at depth 0 in the order of the list; and the fetches and the
\* weight are those of the recursive walk.
C33_FetchesSequentialDepthFirst ==
    LET log == resolution.log
        walk == fetched(0, userRoles, provider, resolution.permissions)
        rootNames == LET roots == SelectSeq(log, AtRoot)
                     IN  [k \in 1..Len(roots) |-> roots[k].name]
    IN  resolution.called
        => /\ Len(resolution.pending) <= 1
           /\ resolution.pending # <<>>
                => resolution.pending[1] = log[Len(log)]
           /\ \A j \in 1..Len(log) :
                 IF log[j].owner = "" THEN log[j].depth = 0
                 ELSE /\ log[j].depth > 0
                      /\ \E h \in 1..(j - 1) :
                            /\ log[h].name = log[j].owner
                            /\ log[h].depth = log[j].depth - 1
                      /\ log[j].name \in Range(provider[log[j].owner].inherited)
           /\ IsPrefix(rootNames, userRoles)
           /\ IsPrefix(LogNames, walk)
           /\ resolution.over
                => /\ LogNames = walk
                   /\ resolution.weight =
                        findMatchingRuleWeight(0, userRoles, provider,
                                               resolution.permissions)

C33_Witness ==
    /\ resolution.over
    /\ resolution.weight = 2
    /\ LogNames = <<"director", "editor", "reader", "editor">>
    /\ resolution.log[3].depth = 2

----------------------------------------------------------------------------
(* Frame and outcome properties of the rules (specification Spec)          *)

\* C34: deny never modifies the allowed weight of the request: after any
\* deny step, whether it passes, restricts or fails, the allowed weight is
\* what it was before the step.
C34_DenyKeepsAllowedWeight ==
    /\ [](IsDenyRule => allowedWeight = last.before)
    /\ [][last'.op \in {"deny", "denyMiddleware"}
            => allowedWeight' = allowedWeight]_vars

C34_Witness ==
    /\ app = "lib" /\ installed
    /\ last.op = "deny"
    /\ last.decision = "restrict"
    /\ last.denyW = 0
    /\ last.before = 0
    /\ allowedWeight = 0

RuleRan ==
    last.op \in {"allow", "deny", "check",
                 "allowMiddleware", "denyMiddleware", "checkMiddleware"}

Restrictions == {"forbidden", "redirected", "handled by restrictionHandler"}

Passed == last.decision = "pass" /\ status \in PassedOn

RestrictedOnly == last.decision = "restrict" /\ status \in Restrictions

\* the rule did not complete: its resolution threw or never returned
NotCompleted ==
    \/ last.decision = "error" /\ status = "error"
    \/ last.decision = "hung" /\ status = "hung"

ResolutionFailed ==
    \/ last.allowW \in {Throws, Diverges, Rejected}
    \/ last.denyW \in {Throws, Diverges, Rejected}

\* the original statement of C35: every rule either passes on to the rest
\* of the pipe or emits a restriction
C35_PassOrRestrict_AsStated ==
    RuleRan => (Passed \/ RestrictedOnly)

\* C35: for every invocation of allow, deny or check exactly one of three
\* outcomes occurs: the rest of the pipe is run and the rule emits nothing;
\* or a restriction (403, redirect or restriction handler) is emitted; or
\* the rule does not complete because its resolution throws or never
\* returns, and nothing is emitted.  In the last two cases the rest of the
\* pipe is never run for that request.
C35_PassOrRestrict ==
    /\ [](RuleRan
            => /\ Passed \/ RestrictedOnly \/ NotCompleted
               /\ ResolutionFailed <=> NotCompleted)
    /\ [][(RuleRan /\ ~Passed) => last'.op = "none"]_vars

C35_Witness ==
    /\ app = "lib" /\ installed
    /\ last.op = "check"
    /\ last.allowW = 0 /\ last.denyW = Throws
    /\ last.decision = "error"
    /\ status = "error"

\* the allow query of the rule resolved to a weight
Finite(w) == w \notin {NotRun, False, Throws, Diverges, Null}

LibRule(l) == app = "lib" /\ l.op \in {"allow", "deny", "check"}

\* C36: the allowed weight of a request is set if and only if an allow
\* query (of allow or of check) evaluated so far resolved to a weight, and
\* it is then the minimum of those weights: it is unset when the request
\* enters, and each rule leaves it as it was when its allow query did not
\* run or did not resolve to a weight, and otherwise sets it to that weight
\* or to the minimum of that weight and the value it had.
C36_AllowedWeightIsMinimumResolved ==
    /\ []((app = "lib" /\ last.op = "none") => allowedWeight = Null)
    /\ [](LibRule(last)
            => /\ allowedWeight = IF ~Finite(last.allowW) THEN last.before
                                  ELSE IF last.before = Null THEN last.allowW
                                  ELSE Min(last.before, last.allowW)
               /\ allowedWeight = Null
                    <=> (last.before = Null /\ ~Finite(last.allowW)))
    /\ [][(LibRule(last') /\ last' # last)
            => last'.before = allowedWeight]_vars

C36_Witness ==
    /\ app = "lib" /\ installed
    /\ last.op = "check"
    /\ last.decision = "restrict"
    /\ last.before = 1
    /\ last.allowW = 0
    /\ allowedWeight = 0

----------------------------------------------------------------------------
(* Properties of the resolution under reordering (SpecFetch)               *)

\* the rearrangements of a list
Rearrangements(s) ==
    LET n == Len(s)
        shuffles == {f \in [1..n -> 1..n] :
                        \A i, j \in 1..n : i # j => f[i] # f[j]}
    IN  {[i \in 1..n |-> s[f[i]]] : f \in shuffles}

\* C37: the weight resolved for a query does not depend on the order of the
\* requester's role list: every rearrangement of the list resolves to the
\* same weight, or to the same unsatisfied result (compared here where both
\* resolutions return).
C37_WeightIgnoresRoleOrder ==
    (resolution.over /\ resolution.weight \notin {Throws, Diverges})
    => \A roles \in Rearrangements(userRoles) :
          LET other == findMatchingRuleWeight(0, roles, provider,
                                              resolution.permissions)
          IN  other \notin {Throws, Diverges} => other = resolution.weight

----------------------------------------------------------------------------
(* Properties of the middleware functions of lib/rbac (SpecInstances)      *)

\* C38: a request that came through the middleware made by middleware(p) is
\* bound to provider p and starts with an unset allowed weight, whatever
\* other middleware functions were made before or after it.
C38_RequestBoundToItsProvider ==
    instances.through > 0
    => /\ provider = instances.made[instances.through]
       /\ (status = "running" /\ last.op = "none") => allowedWeight = Null

----------------------------------------------------------------------------
(* Properties of the rules of koa-rbac along one request (Spec)            *)

HoldsPriority(q) == check(q) \notin {NaN, Rejected, 0}

\* the priority the rule gets for a key of its permissions
KeyPriority(q) == IF q = NoQuery THEN Infinity ELSE check(q)

\* the decision of a koa-rbac rule from the identity and the permissions of
\* the rule alone
OwnDecision ==
    CASE last.op = "allowMiddleware" ->
            IF check(last.allow) = Rejected THEN "error"
            ELSE IF HoldsPriority(last.allow) THEN "pass" ELSE "restrict"
      [] last.op = "denyMiddleware" ->
            IF check(last.deny) = Rejected THEN "error"
            ELSE IF HoldsPriority(last.deny) THEN "restrict" ELSE "pass"
      [] OTHER ->
            LET a == KeyPriority(last.allow)
                d == KeyPriority(last.deny)
            IN  IF a = Rejected \/ d = Rejected THEN "error"
                ELSE IF isNaN(a) \/ (~isNaN(d) /\ d <= a) THEN "restrict"
                ELSE "pass"

KoaRuleRan ==
    /\ app = "koa" /\ installed /\ options.rbac
    /\ last.op \in {"allowMiddleware", "denyMiddleware", "checkMiddleware"}

\* C39: the rules of koa-rbac over an RBAC instance keep no state between
\* them: the decision of each rule is the one that follows from the identity
\* and its own permissions, whether or not other rules passed before it on
\* the request, so that a deny restricts whenever the user holds the denied
\* permission, also after an allow that passed.
C39_KoaRulesKeepNoState ==
    KoaRuleRan
    => /\ last.decision = OwnDecision
       /\ (last.op = "denyMiddleware" /\ HoldsPriority(last.deny))
              => last.decision = "restrict"

\* a deny that restricts after a rule that passed on a query the user holds
C39_Witness ==
    /\ KoaRuleRan
    /\ user = "homer"
    /\ \A q \in KoaQueries : priority[q] \in {1, 2}
    /\ last.op = "denyMiddleware"
    /\ ~last.first
    /\ last.decision = "restrict"

====
